---- MODULE Spec2Model ----
(***************************************************************************)
(* Authentication and request-integrity core of the esports platform:      *)
(* the in-memory rate limiter (src/lib/rate-limit.ts), the session and     *)
(* CSRF token codecs (lib/auth.ts), the mutation guard (src/lib/csrf.ts)   *)
(* and the middleware in front of the route handlers, with the login       *)
(* handler, the browser side (lib/api-client.ts, the login page and the    *)
(* dashboard layout) and the register transaction.                         *)
(*                                                                         *)
(* Text is modelled as a sequence of character codes (ASCII), so that      *)
(* string formatting, parsing, splitting and base64 are computed.          *)
(***************************************************************************)
EXTENDS Integers, Sequences, FiniteSets, TLC

VARIABLES
    now,             \* Date.now(), in milliseconds
    rateLimitStore,  \* rate-limit.ts: Map key -> {count, resetTime}
    activeConfig,    \* the RateLimitConfig the handlers under check pass
    pending,         \* requests accepted by the runtime, handler not yet run
    results,         \* history of checkRateLimit calls: arguments, time, result
    sessions,        \* per user: the cookies the login response has set
    probe,           \* the call or request under observation, and its outcome
    server,          \* the Node.js process: process.env, and lib/auth.ts as loaded
    browser,         \* one browser: its cookie jar, the page shown, the navigation under way
    db               \* PostgreSQL: the tournament row, and the register transactions

vars == <<now, rateLimitStore, activeConfig, pending, results, sessions, probe,
          server, browser, db>>

(***************************************************************************)
(* Bounds of the model.                                                    *)
(***************************************************************************)
MaxRequests == 2        \* maxRequests of a limiter configuration: 1..MaxRequests
MaxWindowSeconds == 1   \* windowSeconds of a limiter configuration: 1..MaxWindowSeconds
MaxCalls == 4           \* requests that arrive in one behaviour
MaxClockSeconds == 2    \* the clock of the rate-limit runs stops after this many seconds
MaxLoginMs == 999       \* logins happen in the first MaxLoginMs milliseconds of a run
MaxLimiterCalls == 5    \* checkRateLimit calls in one limiter run
MaxBoots == 2           \* starts of the server process in one behaviour
MaxConnects == 3        \* requests of the client-address runs
MaxOtpRequests == 5     \* send-otp requests in one behaviour
MaxPosts == 6           \* requests to the login-limited endpoints in one behaviour
MaxRegistrants == 3     \* users that register for the tournament at the same time
MaxTeams == 2           \* max_teams of the tournament: 1..MaxTeams
MaxUses == 3            \* uses of CSRF tokens in one reuse run

(***************************************************************************)
(* Text helpers.                                                           *)
(***************************************************************************)
Colon == <<58>>

\* Milliseconds in a second (Date.now() is in milliseconds)
MsPerSecond == 1000

\* a + b for strings
Concat(a, b) == a \o b

\* Math.ceil(a / b) for an integer a >= 0 and b > 0
CeilDiv(a, b) == (a + b - 1) \div b

IsDigit(c) == c >= 48 /\ c <= 57

\* White space that parseInt skips: space, tab, LF, VT, FF, CR
IsSpace(c) == c \in {32, 9, 10, 11, 12, 13}

\* `${n}` for an integer n
RECURSIVE NumberToString(_)
NumberToString(n) ==
    IF n < 0 THEN <<45>> \o NumberToString(0 - n)
    ELSE IF n < 10 THEN <<48 + n>>
    ELSE Append(NumberToString(n \div 10), 48 + (n % 10))

\* A JavaScript number that is either NaN or an integer
NaN == [nan |-> TRUE, val |-> 0]
Num(v) == [nan |-> FALSE, val |-> v]

\* The first of the positions `stops` of a string of length n at which a scan
\* ends, n + 1 when there is none
FirstStop(stops, n) ==
    IF stops = {} THEN n + 1
    ELSE CHOOSE i \in stops : \A j \in stops : i <= j

SkipSpaces(s) ==
    SubSeq(s, FirstStop({i \in 1..Len(s) : ~IsSpace(s[i])}, Len(s)), Len(s))

\* The value of a hexadecimal digit, -1 for any other character
HexValue(c) ==
    IF IsDigit(c) THEN c - 48
    ELSE IF c >= 97 /\ c <= 102 THEN c - 87
    ELSE IF c >= 65 /\ c <= 70 THEN c - 55
    ELSE 0 - 1

\* The value of a digit in the radix, -1 if the character is no digit of it
DigitValue(c, radix) ==
    IF HexValue(c) >= 0 /\ HexValue(c) < radix THEN HexValue(c) ELSE 0 - 1

\* The number of leading characters of s that are digits of the radix
DigitPrefixLen(s, radix) ==
    FirstStop({i \in 1..Len(s) : DigitValue(s[i], radix) < 0}, Len(s)) - 1

\* The value of a string of digits of the radix
RECURSIVE DigitsValue(_, _)
DigitsValue(d, radix) ==
    IF d = <<>> THEN 0
    ELSE DigitsValue(SubSeq(d, 1, Len(d) - 1), radix) * radix
            + DigitValue(d[Len(d)], radix)

\* parseInt(s): white space, a sign, "0x" for radix 16, then digits up to the
\* first character that is none; NaN when there is no digit
parseInt(s) ==
    LET t == SkipSpaces(s)
        signed == t # <<>> /\ Head(t) \in {43, 45}
        sign == IF t # <<>> /\ Head(t) = 45 THEN 0 - 1 ELSE 1
        u == IF signed THEN Tail(t) ELSE t
        hex == Len(u) >= 2 /\ u[1] = 48 /\ u[2] \in {120, 88}
        radix == IF hex THEN 16 ELSE 10
        v == IF hex THEN SubSeq(u, 3, Len(u)) ELSE u
        n == DigitPrefixLen(v, radix)
    IN  IF n = 0 THEN NaN ELSE Num(sign * DigitsValue(SubSeq(v, 1, n), radix))

\* s.split(c) for a one-character separator
Split(s, c) ==
    LET cuts == {i \in 1..Len(s) : s[i] = c} \cup {0, Len(s) + 1}
        cut(k) == CHOOSE p \in cuts : Cardinality({q \in cuts : q < p}) = k
    IN  [k \in 1..(Cardinality(cuts) - 1) |->
            SubSeq(s, cut(k - 1) + 1, cut(k) - 1)]

\* The text of a value in a template literal: `${x}` where x may be undefined
Undefined == <<117, 110, 100, 101, 102, 105, 110, 101, 100>>

(***************************************************************************)
(* Buffer: UTF-8 and base64.                                               *)
(***************************************************************************)
ReplacementChar == 65533

\* Buffer.from(s): the UTF-8 bytes of a string (characters of the model are
\* ASCII or U+FFFD)
RECURSIVE BufferFrom(_)
BufferFrom(s) ==
    IF s = <<>> THEN <<>>
    ELSE IF Len(s) = 1
    THEN (IF s[1] < 128 THEN s ELSE <<239, 191, 189>>)
    ELSE LET h == Len(s) \div 2
         IN  BufferFrom(SubSeq(s, 1, h)) \o BufferFrom(SubSeq(s, h + 1, Len(s)))

\* buf.toString("utf-8"): every byte that is not ASCII decodes to U+FFFD
\* (well-formed multi-byte sequences are not distinguished)
BufferToString(bytes) ==
    [i \in 1..Len(bytes) |-> IF bytes[i] < 128 THEN bytes[i] ELSE ReplacementChar]

\* The character of a base64 digit 0..63
Base64Char(i) ==
    IF i < 26 THEN 65 + i
    ELSE IF i < 52 THEN 97 + (i - 26)
    ELSE IF i < 62 THEN 48 + (i - 52)
    ELSE IF i = 62 THEN 43 ELSE 47

\* The base64 digit of a character (base64 and base64url), -1 for any other
Base64Digit(c) ==
    IF c >= 65 /\ c <= 90 THEN c - 65
    ELSE IF c >= 97 /\ c <= 122 THEN c - 71
    ELSE IF c >= 48 /\ c <= 57 THEN c + 4
    ELSE IF c \in {43, 45} THEN 62
    ELSE IF c \in {47, 95} THEN 63
    ELSE 0 - 1

\* buf.toString("base64")
RECURSIVE Base64Encode(_)
Base64Encode(b) ==
    IF Len(b) > 6
    THEN LET h == 3 * (Len(b) \div 6)
         IN  Base64Encode(SubSeq(b, 1, h)) \o Base64Encode(SubSeq(b, h + 1, Len(b)))
    ELSE IF Len(b) = 0 THEN <<>>
    ELSE IF Len(b) = 1
    THEN <<Base64Char(b[1] \div 4), Base64Char((b[1] % 4) * 16), 61, 61>>
    ELSE IF Len(b) = 2
    THEN <<Base64Char(b[1] \div 4),
           Base64Char((b[1] % 4) * 16 + (b[2] \div 16)),
           Base64Char((b[2] % 16) * 4), 61>>
    ELSE <<Base64Char(b[1] \div 4),
           Base64Char((b[1] % 4) * 16 + (b[2] \div 16)),
           Base64Char((b[2] % 16) * 4 + (b[3] \div 64)),
           Base64Char(b[3] % 64)>>
         \o Base64Encode(SubSeq(b, 4, Len(b)))

\* The characters of s before the first "="
BeforePadding(s) ==
    SubSeq(s, 1, FirstStop({i \in 1..Len(s) : s[i] = 61}, Len(s)) - 1)

RECURSIVE Base64DecodeDigits(_)
Base64DecodeDigits(d) ==
    IF Len(d) > 8
    THEN LET h == 4 * (Len(d) \div 8)
         IN  Base64DecodeDigits(SubSeq(d, 1, h))
                \o Base64DecodeDigits(SubSeq(d, h + 1, Len(d)))
    ELSE IF Len(d) < 2 THEN <<>>
    ELSE IF Len(d) = 2 THEN <<d[1] * 4 + (d[2] \div 16)>>
    ELSE IF Len(d) = 3
    THEN <<d[1] * 4 + (d[2] \div 16), (d[2] % 16) * 16 + (d[3] \div 4)>>
    ELSE <<d[1] * 4 + (d[2] \div 16),
           (d[2] % 16) * 16 + (d[3] \div 4),
           (d[3] % 4) * 64 + d[4]>>
         \o Base64DecodeDigits(SubSeq(d, 5, Len(d)))

\* Buffer.from(s, "base64"): never throws; characters that are no base64
\* digits are skipped and decoding stops at the padding
Base64Decode(s) ==
    LET kept == SelectSeq(BeforePadding(s), LAMBDA c : Base64Digit(c) >= 0)
    IN  Base64DecodeDigits([i \in 1..Len(kept) |-> Base64Digit(kept[i])])

(***************************************************************************)
(* crypto: HMAC-SHA256 and timingSafeEqual.                                *)
(***************************************************************************)
DigestHexLen == 64

HexChar(v) == IF v < 10 THEN 48 + v ELSE 87 + v

\* buf.toString("hex")
HexEncode(b) ==
    [i \in 1..(2 * Len(b)) |->
        IF i % 2 = 1 THEN HexChar(b[(i + 1) \div 2] \div 16)
        ELSE HexChar(b[i \div 2] % 16)]

\* crypto.createHmac("sha256", secret).update(data).digest("hex"), as an ideal
\* keyed hash: a text of DigestHexLen characters that is different for
\* different (secret, data).  The text writes the secret and the data in hex
\* behind a filler; the secrets and data of the model fit its length.
HmacSha256Hex(secret, data) ==
    LET body == HexEncode(BufferFrom(secret)) \o <<120>> \o HexEncode(BufferFrom(data))
        fill == [i \in 1..(DigestHexLen - Len(body)) |-> 120]
    IN  IF Len(body) >= DigestHexLen
        THEN SubSeq(body, Len(body) - DigestHexLen + 1, Len(body))
        ELSE fill \o body

\* crypto.timingSafeEqual(a, b): throws when the byte lengths differ
timingSafeEqual(a, b) ==
    IF Len(a) # Len(b) THEN [threw |-> TRUE, value |-> FALSE]
    ELSE [threw |-> FALSE, value |-> (a = b)]

(***************************************************************************)
(* lib/auth.ts: session tokens (JWT) and CSRF tokens.                      *)
(***************************************************************************)
\* The outcome of a call: a returned value or a thrown exception
Returned(v) == [threw |-> FALSE, value |-> v]

\* process.env of a deployment with both secrets set: "j1", "c1".  The empty
\* text stands for a variable that is not set (or set to ""): !v holds for both.
ConfiguredEnv == [JWT_SECRET |-> <<106, 49>>, CSRF_SECRET |-> <<99, 49>>]

\* crypto.randomBytes(32).toString("hex"): the outcomes the model draws from,
\* "a1" and "a2" in place of 64 hex characters
RandomHex == {<<97, 49>>, <<97, 50>>}

\* A process that has not evaluated lib/auth.ts
Stopped(env, boot) ==
    [env |-> env, state |-> "stopped", boot |-> boot,
     JWT_SECRET |-> <<>>, CSRF_SECRET |-> <<>>]

\* A check of the session secret that never fails
JwtSecretMissingNever(env) == FALSE

\* if (!JWT_SECRET)
JwtSecretMissing(env) == env.JWT_SECRET = <<>>

\* A module that signs with a random CSRF secret whatever is configured
loadAuthRandomOnly(process, random) ==
    IF JwtSecretMissing(process.env)
    THEN [process EXCEPT !.state = "failed", !.boot = @ + 1]
    ELSE [process EXCEPT !.state = "loaded", !.boot = @ + 1,
                         !.JWT_SECRET = process.env.JWT_SECRET,
                         !.CSRF_SECRET = random]

\* The evaluation of lib/auth.ts when the process first imports it: it throws
\* without a session secret, else it binds JWT_SECRET and CSRF_SECRET, the
\* latter to process.env.CSRF_SECRET || the random text
loadAuth(process, random) ==
    IF JwtSecretMissing(process.env)
    THEN [process EXCEPT !.state = "failed", !.boot = @ + 1]
    ELSE [process EXCEPT !.state = "loaded", !.boot = @ + 1,
                         !.JWT_SECRET = process.env.JWT_SECRET,
                         !.CSRF_SECRET = IF process.env.CSRF_SECRET # <<>>
                                         THEN process.env.CSRF_SECRET
                                         ELSE random]

\* The process of a deployment with both secrets set, lib/auth.ts loaded
ConfiguredServer == loadAuth(Stopped(ConfiguredEnv, 0), <<97, 49>>)

\* lib/auth.ts has been evaluated without an exception: its functions exist
Serving == server.state = "loaded"

\* lib/auth.ts: const JWT_SECRET
JWT_SECRET == server.JWT_SECRET

\* lib/auth.ts: const CSRF_SECRET
CSRF_SECRET == server.CSRF_SECRET

\* The value of verifyToken and getUserFromRequest when there is no identity
Null == [null |-> TRUE]

\* expiresIn: "7d", in seconds
SessionSeconds == 7 * 24 * 60 * 60

\* 24 * 60 * 60 * 1000
CsrfMaxAgeMs == 24 * 60 * 60 * 1000

\* The signature of a JWT, as an ideal keyed hash of its payload
JwtSignature(secret, payload) == [key |-> secret, signed |-> payload]

\* jwt.sign(payload, secret, {expiresIn}): iat and exp are in whole seconds
jwtSign(payload, secret, expiresInSeconds, t) ==
    LET iat == t \div MsPerSecond
        claims == [id |-> payload.id, email |-> payload.email,
                   username |-> payload.username, is_host |-> payload.is_host,
                   iat |-> iat, exp |-> iat + expiresInSeconds]
    IN  [kind |-> "jwt", payload |-> claims,
         signature |-> JwtSignature(secret, claims)]

\* jwt.verify(token, secret): throws on a malformed token, on a signature
\* that is not the secret's, and from the second of exp on
jwtVerify(token, secret, t) ==
    IF token.kind # "jwt" THEN [threw |-> TRUE, value |-> Null]
    ELSE IF token.signature # JwtSignature(secret, token.payload)
    THEN [threw |-> TRUE, value |-> Null]
    ELSE IF t \div MsPerSecond >= token.payload.exp
    THEN [threw |-> TRUE, value |-> Null]
    ELSE Returned(token.payload)

\* A generateToken that signs a session of 24 hours
generateTokenShort(user, t) ==
    jwtSign([id |-> user.id, email |-> user.email, username |-> user.username,
             is_host |-> user.is_host],
            JWT_SECRET, 24 * 60 * 60, t)

\* generateToken(user) at time t
generateToken(user, t) ==
    jwtSign([id |-> user.id, email |-> user.email, username |-> user.username,
             is_host |-> user.is_host],
            JWT_SECRET, SessionSeconds, t)

\* A verifyToken without the try/catch: the exception reaches the caller
verifyTokenNoCatch(token, t) == jwtVerify(token, JWT_SECRET, t)

\* A verifyToken that consults a record of the logouts
verifyTokenRevoking(token, t) ==
    LET decoded == jwtVerify(token, JWT_SECRET, t)
    IN  IF \/ decoded.threw
           \/ \E u \in DOMAIN sessions :
                 /\ sessions[u].active
                 /\ sessions[u].authToken = token
                 /\ sessions[u].loggedOut
        THEN Returned(Null)
        ELSE decoded

\* verifyToken(token) at time t, as the outcome its caller sees
verifyTokenCall(token, t) ==
    LET decoded == jwtVerify(token, JWT_SECRET, t)
    IN  IF decoded.threw THEN Returned(Null) ELSE decoded

\* verifyToken(token) at time t: TokenPayload | null
verifyToken(token, t) == verifyTokenCall(token, t).value

\* generateCsrfToken(userId) at time t
generateCsrfToken(userId, t) ==
    LET timestamp == t
        data == NumberToString(userId) \o Colon \o NumberToString(timestamp)
        signature == HmacSha256Hex(CSRF_SECRET, data)
    IN  Base64Encode(BufferFrom(data \o Colon \o signature))

\* A user check that lets every token pass
UserIdMismatchNever(tokenUserId, userId) == FALSE

\* parseInt(tokenUserId) !== userId
UserIdMismatch(tokenUserId, userId) == parseInt(tokenUserId) # Num(userId)

\* An age check that rejects a token of exactly 24 hours
TokenTooOldInclusive(timestamp, t) ==
    LET issued == parseInt(timestamp)
    IN  ~issued.nan /\ t - issued.val >= CsrfMaxAgeMs

\* An age check that accepts a token at the instant of its issue only
TokenTooOldAfterIssue(timestamp, t) ==
    LET issued == parseInt(timestamp)
    IN  ~issued.nan /\ t - issued.val > 0

\* Date.now() - parseInt(timestamp) > 24 * 60 * 60 * 1000 (false for NaN)
TokenTooOld(timestamp, t) ==
    LET issued == parseInt(timestamp)
    IN  ~issued.nan /\ t - issued.val > CsrfMaxAgeMs

\* The try block of verifyCsrfToken(token, userId) at time t
verifyCsrfTokenTry(token, userId, t) ==
    LET decoded == BufferToString(Base64Decode(token))
        parts == Split(decoded, 58)
        tokenUserId == parts[1]
        timestamp == IF Len(parts) >= 2 THEN parts[2] ELSE Undefined
        expectedSignature ==
            HmacSha256Hex(CSRF_SECRET, tokenUserId \o Colon \o timestamp)
    IN  IF UserIdMismatch(tokenUserId, userId) THEN Returned(FALSE)
        ELSE IF TokenTooOld(timestamp, t) THEN Returned(FALSE)
        ELSE IF Len(parts) < 3 THEN [threw |-> TRUE, value |-> FALSE]
        ELSE timingSafeEqual(BufferFrom(parts[3]), BufferFrom(expectedSignature))

\* A verifyCsrfToken without the try/catch: the exception reaches the caller
verifyCsrfTokenNoCatch(token, userId, t) == verifyCsrfTokenTry(token, userId, t)

\* A verifyCsrfToken whose catch returns true
verifyCsrfTokenCatchTrue(token, userId, t) ==
    LET r == verifyCsrfTokenTry(token, userId, t)
    IN  IF r.threw THEN Returned(TRUE) ELSE r

\* verifyCsrfToken(token, userId) at time t, as the outcome its caller sees
verifyCsrfTokenCall(token, userId, t) ==
    LET r == verifyCsrfTokenTry(token, userId, t)
    IN  IF r.threw THEN Returned(FALSE) ELSE r

\* verifyCsrfToken(token, userId) at time t: boolean
verifyCsrfToken(token, userId, t) == verifyCsrfTokenCall(token, userId, t).value

(***************************************************************************)
(* Requests.  A request is its method, its path (the segments between the  *)
(* slashes), its cookies auth_token and csrf_token and its headers         *)
(* Authorization and X-CSRF-Token.  An absent cookie or header and an      *)
(* empty one are the same to the code (both are falsy).                    *)
(***************************************************************************)
\* The users table
Users ==
    {[id |-> 1, email |-> "alice@example.com", username |-> "alice", is_host |-> FALSE],
     [id |-> 12, email |-> "bob@example.com", username |-> "bob", is_host |-> TRUE]}

UserIds == {u.id : u \in Users}

UserById(id) == CHOOSE u \in Users : u.id = id

\* No auth_token cookie, no token in the Authorization header
NoJwt == [kind |-> "absent"]

\* A string that is no JWT
MalformedJwt == [kind |-> "malformed"]

\* No Authorization header
NoAuthorization == [scheme |-> "none", credentials |-> NoJwt]

\* Authorization: Bearer <token>
Bearer(token) == [scheme |-> "Bearer", credentials |-> token]

RegisterPath == <<"api", "registrations", "register">>
LoginPath == <<"api", "auth", "login">>

\* A path below an exempt one: /api/auth/verify-otp/resend
ExemptSubPath == <<"api", "auth", "verify-otp", "resend">>

\* pathname === path || pathname.startsWith(path + "/")
PathMatches(pathname, path) ==
    /\ Len(pathname) >= Len(path)
    /\ SubSeq(pathname, 1, Len(path)) = path

\* pathname.startsWith("/api/")
IsApiPath(pathname) == Len(pathname) >= 2 /\ pathname[1] = "api"

\* middleware.ts: publicPaths
publicPaths ==
    {<<"login">>, <<"register">>, <<"forgot-password">>,
     <<"api", "auth", "login">>, <<"api", "auth", "logout">>,
     <<"api", "auth", "send-otp">>, <<"api", "auth", "verify-otp">>,
     <<"api", "auth", "forgot-password">>, <<"api", "auth", "reset-password">>}

\* An exempt list that lacks the login path
csrfExemptPathsWithoutLogin ==
    {<<"api", "auth", "send-otp">>,
     <<"api", "auth", "verify-otp">>, <<"api", "auth", "forgot-password">>,
     <<"api", "auth", "reset-password">>}

\* middleware.ts: csrfExemptPaths
csrfExemptPaths ==
    {<<"api", "auth", "login">>, <<"api", "auth", "send-otp">>,
     <<"api", "auth", "verify-otp">>, <<"api", "auth", "forgot-password">>,
     <<"api", "auth", "reset-password">>}

\* csrf.ts: CSRF_EXEMPT_PATHS
CSRF_EXEMPT_PATHS ==
    {<<"api", "auth", "login">>, <<"api", "auth", "send-otp">>,
     <<"api", "auth", "verify-otp">>, <<"api", "auth", "forgot-password">>,
     <<"api", "auth", "reset-password">>}

\* csrf.ts: isCsrfExempt(pathname)
isCsrfExempt(pathname) ==
    \E path \in CSRF_EXEMPT_PATHS : PathMatches(pathname, path)

\* request.method.toUpperCase(), for the method names of HTTP
toUpperCase(method) ==
    CASE method = "get" -> "GET"
      [] method = "head" -> "HEAD"
      [] method = "post" -> "POST"
      [] method = "put" -> "PUT"
      [] method = "delete" -> "DELETE"
      [] method = "patch" -> "PATCH"
      [] OTHER -> method

\* A method test that takes GET for a mutation
IsMutationOrGet(method) == method \in {"POST", "PUT", "DELETE", "PATCH", "GET"}

\* ["POST", "PUT", "DELETE", "PATCH"].includes(method)
IsMutation(method) == method \in {"POST", "PUT", "DELETE", "PATCH"}

\* The value is truthy: a JWT string that is present and not empty
HasJwt(token) == token.kind # "absent"

\* NextResponse.json({success: false, message}, {status})
jsonResponse(message, status) ==
    [kind |-> "json", status |-> status, message |-> message]

\* errorResponse(message, status) of lib/api-response: the JSON failure
\* response with the message and the status it is called with
errorResponse(message, status) == jsonResponse(message, status)

\* unauthorizedResponse() of lib/api-response: the 401 failure response
unauthorizedResponse == errorResponse("Unauthorized", 401)

\* NextResponse.redirect(new URL(to, request.url))
redirectResponse(to) == [kind |-> "redirect", status |-> 307, message |-> to]

\* NextResponse.next(), and the null of validateCsrf: the request proceeds
Proceed == [kind |-> "next", status |-> 0, message |-> ""]

\* A getUserFromRequest that tries the Authorization header first
getUserFromRequestHeaderFirst(request, t) ==
    IF request.headers.authorization.scheme = "Bearer"
    THEN verifyToken(request.headers.authorization.credentials, t)
    ELSE IF HasJwt(request.cookies.auth_token)
    THEN verifyToken(request.cookies.auth_token, t)
    ELSE Null

\* A getUserFromRequest that falls back to the header when the token of the
\* cookie fails verification
getUserFromRequestFallback(request, t) ==
    IF /\ HasJwt(request.cookies.auth_token)
       /\ verifyToken(request.cookies.auth_token, t) # Null
    THEN verifyToken(request.cookies.auth_token, t)
    ELSE IF request.headers.authorization.scheme = "Bearer"
    THEN verifyToken(request.headers.authorization.credentials, t)
    ELSE Null

\* getUserFromRequest(request) at time t
getUserFromRequest(request, t) ==
    IF HasJwt(request.cookies.auth_token)
    THEN verifyToken(request.cookies.auth_token, t)
    ELSE IF request.headers.authorization.scheme = "Bearer"
    THEN verifyToken(request.headers.authorization.credentials, t)
    ELSE Null

\* A validateCsrf that reports every rejected token as a missing one
validateCsrfOneMessage(request, t) ==
    LET user == getUserFromRequest(request, t)
        csrfToken == IF request.headers.x_csrf_token # <<>>
                     THEN request.headers.x_csrf_token
                     ELSE request.cookies.csrf_token
    IN  IF ~IsMutation(toUpperCase(request.method)) THEN Proceed
        ELSE IF user = Null THEN Proceed
        ELSE IF csrfToken = <<>> \/ ~verifyCsrfToken(csrfToken, user.id, t)
        THEN errorResponse("CSRF token missing", 403)
        ELSE Proceed

\* A validateCsrf that asks for the CSRF token before it asks for the user
validateCsrfTokenFirst(request, t) ==
    LET user == getUserFromRequest(request, t)
        csrfToken == IF request.headers.x_csrf_token # <<>>
                     THEN request.headers.x_csrf_token
                     ELSE request.cookies.csrf_token
    IN  IF ~IsMutation(toUpperCase(request.method)) THEN Proceed
        ELSE IF csrfToken = <<>> THEN errorResponse("CSRF token missing", 403)
        ELSE IF user = Null THEN Proceed
        ELSE IF ~verifyCsrfToken(csrfToken, user.id, t)
        THEN errorResponse("Invalid CSRF token", 403)
        ELSE Proceed

\* A validateCsrf that reads the CSRF token from the cookie only
validateCsrfCookieOnly(request, t) ==
    LET user == getUserFromRequest(request, t)
        csrfToken == request.cookies.csrf_token
    IN  IF ~IsMutation(toUpperCase(request.method)) THEN Proceed
        ELSE IF user = Null THEN Proceed
        ELSE IF csrfToken = <<>> THEN errorResponse("CSRF token missing", 403)
        ELSE IF ~verifyCsrfToken(csrfToken, user.id, t)
        THEN errorResponse("Invalid CSRF token", 403)
        ELSE Proceed

\* A validateCsrf that prefers the cookie to the header
validateCsrfCookieFirst(request, t) ==
    LET user == getUserFromRequest(request, t)
        csrfToken == IF request.cookies.csrf_token # <<>>
                     THEN request.cookies.csrf_token
                     ELSE request.headers.x_csrf_token
    IN  IF ~IsMutation(toUpperCase(request.method)) THEN Proceed
        ELSE IF user = Null THEN Proceed
        ELSE IF csrfToken = <<>> THEN errorResponse("CSRF token missing", 403)
        ELSE IF ~verifyCsrfToken(csrfToken, user.id, t)
        THEN errorResponse("Invalid CSRF token", 403)
        ELSE Proceed

\* validateCsrf(request) at time t (src/lib/csrf.ts)
validateCsrf(request, t) ==
    LET user == getUserFromRequest(request, t)
        csrfToken == IF request.headers.x_csrf_token # <<>>
                     THEN request.headers.x_csrf_token
                     ELSE request.cookies.csrf_token
    IN  IF ~IsMutation(toUpperCase(request.method)) THEN Proceed
        ELSE IF user = Null THEN Proceed
        ELSE IF csrfToken = <<>> THEN errorResponse("CSRF token missing", 403)
        ELSE IF ~verifyCsrfToken(csrfToken, user.id, t)
        THEN errorResponse("Invalid CSRF token", 403)
        ELSE Proceed

\* A middleware that takes the csrf_token cookie for the header
middlewareCookieFallback(request) ==
    LET pathname == request.pathname
        isPublicPath == \E path \in publicPaths : PathMatches(pathname, path)
        cookieToken == request.cookies.auth_token
        \* request.headers.get("authorization")?.replace("Bearer ", "")
        hasHeaderToken ==
            /\ request.headers.authorization.scheme # "none"
            /\ ~(/\ request.headers.authorization.scheme = "Bearer"
                 /\ ~HasJwt(request.headers.authorization.credentials))
        token == HasJwt(cookieToken) \/ hasHeaderToken
        \* const isCsrfExempt = csrfExemptPaths.some(...)
        csrfExempt == \E path \in csrfExemptPaths : PathMatches(pathname, path)
    IN  IF /\ isPublicPath /\ token
           /\ pathname # <<"api", "auth", "login">>
           /\ pathname # <<"api", "auth", "logout">>
           /\ ~IsApiPath(pathname)
        THEN redirectResponse("/dashboard")
        ELSE IF ~isPublicPath /\ ~token
        THEN IF IsApiPath(pathname)
             THEN jsonResponse("Unauthorized", 401)
             ELSE redirectResponse("/login")
        ELSE IF /\ IsApiPath(pathname) /\ token
                /\ IsMutation(toUpperCase(request.method)) /\ ~csrfExempt
                /\ request.headers.x_csrf_token = <<>>
                /\ request.cookies.csrf_token = <<>>
        THEN jsonResponse("CSRF token required", 403)
        ELSE Proceed

\* middleware(request) (middleware.ts)
middleware(request) ==
    LET pathname == request.pathname
        isPublicPath == \E path \in publicPaths : PathMatches(pathname, path)
        cookieToken == request.cookies.auth_token
        \* request.headers.get("authorization")?.replace("Bearer ", "")
        hasHeaderToken ==
            /\ request.headers.authorization.scheme # "none"
            /\ ~(/\ request.headers.authorization.scheme = "Bearer"
                 /\ ~HasJwt(request.headers.authorization.credentials))
        token == HasJwt(cookieToken) \/ hasHeaderToken
        \* const isCsrfExempt = csrfExemptPaths.some(...)
        csrfExempt == \E path \in csrfExemptPaths : PathMatches(pathname, path)
    IN  IF /\ isPublicPath /\ token
           /\ pathname # <<"api", "auth", "login">>
           /\ pathname # <<"api", "auth", "logout">>
           /\ ~IsApiPath(pathname)
        THEN redirectResponse("/dashboard")
        ELSE IF ~isPublicPath /\ ~token
        THEN IF IsApiPath(pathname)
             THEN jsonResponse("Unauthorized", 401)
             ELSE redirectResponse("/login")
        ELSE IF /\ IsApiPath(pathname) /\ token
                /\ IsMutation(toUpperCase(request.method)) /\ ~csrfExempt
                /\ request.headers.x_csrf_token = <<>>
        THEN jsonResponse("CSRF token required", 403)
        ELSE Proceed

\* POST /api/registrations/register up to the business logic: the response
\* when the handler stops before it, Proceed when it goes on to the body,
\* the validation and the transaction
registerRoute(request, t) ==
    LET user == getUserFromRequest(request, t)
    IN  IF user = Null THEN unauthorizedResponse ELSE Proceed

(***************************************************************************)
(* Rate limiter, src/lib/rate-limit.ts                                     *)
(***************************************************************************)
\* Client identifiers (the text getClientIp returns): "1", "2"
Identifiers == {<<49>>, <<50>>}

\* The prefix of the limiter configuration under check: "rl"
ModelPrefix == <<114, 108>>

\* RateLimitConfig values the limiter is exercised with
LimiterConfigs ==
    [maxRequests : 1..MaxRequests,
     windowSeconds : 1..MaxWindowSeconds,
     prefix : {ModelPrefix}]

\* A key that leaves the prefix out
RateLimitKeyWithoutPrefix(identifier, config) == Concat(Colon, identifier)

\* const key = `${prefix}:${identifier}`
RateLimitKey(identifier, config) ==
    Concat(Concat(config.prefix, Colon), identifier)

\* rateLimitStore.get(key) is defined
HasEntry(store, key) == key \in DOMAIN store

\* rateLimitStore.set(key, entry)
StoreSet(store, key, entry) ==
    [k \in (DOMAIN store) \cup {key} |-> IF k = key THEN entry ELSE store[k]]

\* A buggy increment that loses the update (used to validate the properties)
IncrementLost(entry) == entry

\* An increment that also moves the end of the window one second on
IncrementExtending(entry) ==
    [count |-> entry.count + 1, resetTime |-> entry.resetTime + 1000]

\* entry.count++
Increment(entry) == [entry EXCEPT !.count = @ + 1]

\* A buggy window test that never expires an entry
WindowExpiredNever(entry, t) == FALSE

\* A window test that expires every entry
WindowExpiredAlways(entry, t) == TRUE

\* now > entry.resetTime
WindowExpired(entry, t) == t > entry.resetTime

\* A limit test that never denies
LimitReachedNever(entry, config) == FALSE

\* entry.count >= config.maxRequests
LimitReached(entry, config) == entry.count >= config.maxRequests

\* checkRateLimit(identifier, config) at time t on store:
\* the returned RateLimitResult and the store it leaves.
checkRateLimit(store, identifier, config, t) ==
    LET key == RateLimitKey(identifier, config)
        windowMs == config.windowSeconds * MsPerSecond
    IN  IF ~HasEntry(store, key) \/ WindowExpired(store[key], t)
        THEN [store |-> StoreSet(store, key,
                           [count |-> 1, resetTime |-> t + windowMs]),
              result |-> [success |-> TRUE,
                          remaining |-> config.maxRequests - 1,
                          resetIn |-> config.windowSeconds,
                          limit |-> config.maxRequests]]
        ELSE IF LimitReached(store[key], config)
        THEN [store |-> store,
              result |-> [success |-> FALSE,
                          remaining |-> 0,
                          resetIn |-> CeilDiv(store[key].resetTime - t, MsPerSecond),
                          limit |-> config.maxRequests]]
        ELSE LET entry == Increment(store[key])
             IN  [store |-> StoreSet(store, key, entry),
                  result |-> [success |-> TRUE,
                              remaining |-> config.maxRequests - entry.count,
                              resetIn |-> CeilDiv(entry.resetTime - t, MsPerSecond),
                              limit |-> config.maxRequests]]

\* A sweep that also deletes the entry whose window ends at this instant
SweepStoreInclusive(store, t) ==
    [k \in {k \in DOMAIN store : ~(t >= store[k].resetTime)} |-> store[k]]

\* The setInterval callback: delete every entry whose window has expired
SweepStore(store, t) ==
    [k \in {k \in DOMAIN store : ~(t > store[k].resetTime)} |-> store[k]]

\* getClientIp(request) for a request without proxy headers: "unknown"
UnknownIp == <<117, 110, 107, 110, 111, 119, 110>>

\* s.trim()
Trim(s) ==
    LET kept == {i \in 1..Len(s) : ~IsSpace(s[i])}
    IN  IF kept = {} THEN <<>>
        ELSE SubSeq(s, CHOOSE i \in kept : \A k \in kept : i <= k,
                       CHOOSE j \in kept : \A k \in kept : j >= k)

\* A getClientIp that prefers X-Real-IP
getClientIpRealIpFirst(headers) ==
    IF headers.x_real_ip # <<>> THEN headers.x_real_ip
    ELSE IF headers.x_forwarded_for # <<>>
    THEN Trim(Split(headers.x_forwarded_for, 44)[1])
    ELSE UnknownIp

\* getClientIp(request): headers.get gives null for a header that is absent;
\* the empty text stands for null and for "", which the code treats alike
getClientIp(headers) ==
    IF headers.x_forwarded_for # <<>>
    THEN Trim(Split(headers.x_forwarded_for, 44)[1])
    ELSE IF headers.x_real_ip # <<>> THEN headers.x_real_ip
    ELSE UnknownIp

\* loginRateLimit: 5 attempts per 15 minutes, prefix "login"
loginRateLimit ==
    [maxRequests |-> 5, windowSeconds |-> 15 * 60,
     prefix |-> <<108, 111, 103, 105, 110>>]

\* registerRateLimit: 3 per hour, prefix "register"
registerRateLimit ==
    [maxRequests |-> 3, windowSeconds |-> 60 * 60,
     prefix |-> <<114, 101, 103, 105, 115, 116, 101, 114>>]

\* otpRateLimit: 3 per 10 minutes, prefix "otp"
otpRateLimit ==
    [maxRequests |-> 3, windowSeconds |-> 10 * 60, prefix |-> <<111, 116, 112>>]

\* passwordResetRateLimit: 3 per 30 minutes, prefix "password-reset"
passwordResetRateLimit ==
    [maxRequests |-> 3, windowSeconds |-> 30 * 60,
     prefix |-> <<112, 97, 115, 115, 119, 111, 114, 100, 45, 114, 101, 115, 101, 116>>]

\* generalApiRateLimit: 100 per minute, prefix "api"
generalApiRateLimit ==
    [maxRequests |-> 100, windowSeconds |-> 60, prefix |-> <<97, 112, 105>>]

\* The pre-configured rate limiters
NamedLimiters ==
    {loginRateLimit, registerRateLimit, otpRateLimit, passwordResetRateLimit,
     generalApiRateLimit}

\* rateLimitResponse(result): 429 with the seconds to wait
rateLimitResponse(result) ==
    [kind |-> "json", status |-> 429, message |-> "Too many requests",
     retryAfter |-> result.resetIn]

\* POST /api/auth/login up to the business logic (the body, the credentials):
\* the store the rate-limit check leaves, and the 429 response when the
\* handler stops at it, Proceed when it goes on
loginRoute(store, request, t) ==
    LET r == checkRateLimit(store, UnknownIp, loginRateLimit, t)
    IN  [store |-> r.store,
         response |-> IF r.result.success THEN Proceed
                      ELSE rateLimitResponse(r.result)]

\* The password whose hash the users table holds for the user (bcrypt is
\* taken as ideal: bcrypt.compare holds for the password that was hashed only)
PasswordOf(user) == IF user.id = 1 THEN "alice-pw" ELSE "bob-pw"

\* No step of the login handler behind the limiter has run
NoSteps ==
    [parsed |-> FALSE, queried |-> FALSE, verified |-> FALSE, issued |-> FALSE]

\* The response sets no cookie
NoCookies == [auth_token |-> NoJwt, csrf_token |-> <<>>]

\* A login handler that consults the limiter after the credentials
loginPostLimiterLast(store, clientIp, body, t) ==
    LET limit == checkRateLimit(store, clientIp, loginRateLimit, t)
        rows == {u \in Users : u.email = body.email}
        user == CHOOSE u \in rows : TRUE
    IN  IF rows = {} \/ body.password # PasswordOf(user)
        THEN [store |-> store,
              steps |-> [NoSteps EXCEPT !.parsed = TRUE, !.queried = TRUE,
                                        !.verified = rows # {}],
              response |-> errorResponse("Invalid credentials", 401),
              cookies |-> NoCookies]
        ELSE IF ~limit.result.success
        THEN [store |-> limit.store,
              steps |-> [NoSteps EXCEPT !.parsed = TRUE, !.queried = TRUE,
                                        !.verified = TRUE],
              response |-> rateLimitResponse(limit.result),
              cookies |-> NoCookies]
        ELSE [store |-> limit.store,
              steps |-> [parsed |-> TRUE, queried |-> TRUE, verified |-> TRUE,
                         issued |-> TRUE],
              response |-> jsonResponse("", 200),
              cookies |-> [auth_token |-> generateToken(user, t),
                           csrf_token |-> generateCsrfToken(user.id, t)]]

\* POST /api/auth/login: the store it leaves, the steps behind the limiter
\* that have run (request.json(), the users query, verifyPassword, the
\* generation of the tokens), the response and the cookies the response sets.
\* The answer to a body that fails loginSchema is made by lib/api-response.
loginPost(store, clientIp, body, t) ==
    LET limit == checkRateLimit(store, clientIp, loginRateLimit, t)
        rows == {u \in Users : u.email = body.email}
        user == CHOOSE u \in rows : TRUE
    IN  IF ~limit.result.success
        THEN [store |-> limit.store, steps |-> NoSteps,
              response |-> rateLimitResponse(limit.result),
              cookies |-> NoCookies]
        ELSE IF body.password = ""
        THEN [store |-> limit.store,
              steps |-> [NoSteps EXCEPT !.parsed = TRUE],
              response |-> [kind |-> "validationError", status |-> 0, message |-> ""],
              cookies |-> NoCookies]
        ELSE IF rows = {}
        THEN [store |-> limit.store,
              steps |-> [NoSteps EXCEPT !.parsed = TRUE, !.queried = TRUE],
              response |-> errorResponse("Invalid credentials", 401),
              cookies |-> NoCookies]
        ELSE IF body.password # PasswordOf(user)
        THEN [store |-> limit.store,
              steps |-> [NoSteps EXCEPT !.parsed = TRUE, !.queried = TRUE,
                                        !.verified = TRUE],
              response |-> errorResponse("Invalid credentials", 401),
              cookies |-> NoCookies]
        ELSE [store |-> limit.store,
              steps |-> [parsed |-> TRUE, queried |-> TRUE, verified |-> TRUE,
                         issued |-> TRUE],
              response |-> jsonResponse("", 200),
              cookies |-> [auth_token |-> generateToken(user, t),
                           csrf_token |-> generateCsrfToken(user.id, t)]]

\* A verify-otp handler with a counter of its own
otpPostOwnLimiter(store, clientIp, t) ==
    LET limit == checkRateLimit(store, clientIp, otpRateLimit, t)
    IN  [store |-> limit.store,
         steps |-> [NoSteps EXCEPT !.parsed = limit.result.success],
         response |-> IF limit.result.success THEN Proceed
                      ELSE rateLimitResponse(limit.result),
         cookies |-> NoCookies]

\* POST /api/auth/verify-otp and POST /api/auth/reset-password up to the
\* request body: both consult the limiter with loginRateLimit
otpPost(store, clientIp, t) ==
    LET limit == checkRateLimit(store, clientIp, loginRateLimit, t)
    IN  [store |-> limit.store,
         steps |-> [NoSteps EXCEPT !.parsed = limit.result.success],
         response |-> IF limit.result.success THEN Proceed
                      ELSE rateLimitResponse(limit.result),
         cookies |-> NoCookies]

\* POST /api/auth/send-otp up to the request body: the store the two
\* rate-limit checks leave, the limiter that stopped the request ("none" when
\* the handler goes on) and the response
sendOtpRoute(store, clientIp, t) ==
    LET registerLimit == checkRateLimit(store, clientIp, registerRateLimit, t)
        otpLimit == checkRateLimit(registerLimit.store, clientIp, otpRateLimit, t)
    IN  IF ~registerLimit.result.success
        THEN [store |-> registerLimit.store, stoppedBy |-> "register",
              response |-> rateLimitResponse(registerLimit.result)]
        ELSE IF ~otpLimit.result.success
        THEN [store |-> otpLimit.store, stoppedBy |-> "otp",
              response |-> rateLimitResponse(otpLimit.result)]
        ELSE [store |-> otpLimit.store, stoppedBy |-> "none",
              response |-> Proceed]

\* The requests whose route handler is observed after the middleware:
\* POST /api/registrations/register
HasHandler(request) ==
    request.method = "POST" /\ request.pathname = RegisterPath

\* No user has logged in
NoSessions == [u \in UserIds |-> [active |-> FALSE]]

\* No browser is open, and no tournament is open for registration
NoBrowser == [location |-> "none"]
NoDb == [tournament |-> "none"]

\* Nothing is under observation
Idle == [op |-> "idle"]

(***************************************************************************)
(* Rate-limit runs: requests arrive concurrently, the single-threaded      *)
(* runtime runs each handler's synchronous checkRateLimit call to          *)
(* completion, the clock advances, the periodic sweep fires.               *)
(***************************************************************************)
RateLimitInstants ==
    {s * MsPerSecond + e : s \in 0..MaxClockSeconds, e \in {0, 1}}

RECURSIVE SumOver(_, _)
SumOver(f, S) ==
    IF S = {} THEN 0
    ELSE LET x == CHOOSE y \in S : TRUE IN f[x] + SumOver(f, S \ {x})

Arrived == Len(results) + SumOver(pending, Identifiers)

InitRateLimit ==
    /\ now = 0
    /\ rateLimitStore = <<>>
    /\ activeConfig \in LimiterConfigs
    /\ pending = [i \in Identifiers |-> 0]
    /\ results = <<>>
    /\ sessions = NoSessions
    /\ probe = Idle
    /\ server = ConfiguredServer
    /\ browser = NoBrowser
    /\ db = NoDb

\* A request from client `identifier` reaches the server; its handler has not run yet
Arrive(identifier) ==
    /\ Arrived < MaxCalls
    /\ pending' = [pending EXCEPT ![identifier] = @ + 1]
    /\ UNCHANGED <<browser, db, server, now, rateLimitStore, activeConfig, results, sessions, probe>>

\* The handler of a pending request runs its rate-limit check
\* (const rateLimitResult = checkRateLimit(clientIp, config))
Handle(identifier) ==
    /\ pending[identifier] > 0
    /\ LET r == checkRateLimit(rateLimitStore, identifier, activeConfig, now)
       IN  /\ rateLimitStore' = r.store
           /\ results' = Append(results,
                  [identifier |-> identifier, at |-> now, result |-> r.result])
    /\ pending' = [pending EXCEPT ![identifier] = @ - 1]
    /\ UNCHANGED <<browser, db, server, now, activeConfig, sessions, probe>>

\* setInterval(() => {...}, 5 * 60 * 1000)
Sweep ==
    /\ rateLimitStore' = SweepStore(rateLimitStore, now)
    /\ rateLimitStore' # rateLimitStore
    /\ UNCHANGED <<browser, db, server, now, activeConfig, pending, results, sessions, probe>>

\* The clock advances
TickRateLimit ==
    /\ \E t \in RateLimitInstants : t > now /\ now' = t
    /\ UNCHANGED <<browser, db, server, rateLimitStore, activeConfig, pending, results, sessions, probe>>

NextRateLimit ==
    \/ \E i \in Identifiers : Arrive(i)
    \/ \E i \in Identifiers : Handle(i)
    \/ Sweep
    \/ TickRateLimit

SpecRateLimit == InitRateLimit /\ [][NextRateLimit]_vars

(***************************************************************************)
(* What an observer of the calls can say about windows.  A window of a     *)
(* client starts with its first call, or with its first call made after    *)
(* the previous window of that client has elapsed.                         *)
(***************************************************************************)
WindowMs == activeConfig.windowSeconds * MsPerSecond

CallsOf(identifier, upto) ==
    {i \in 1..upto : results[i].identifier = identifier}

\* The last call of the client among the first upto calls; 0 when none
RECURSIVE LastCallOf(_, _)
LastCallOf(identifier, upto) ==
    IF upto = 0 THEN 0
    ELSE IF results[upto].identifier = identifier THEN upto
    ELSE LastCallOf(identifier, upto - 1)

RECURSIVE WindowStart(_)
WindowStart(j) ==
    LET p == LastCallOf(results[j].identifier, j - 1)
    IN  IF p = 0 THEN results[j].at
        ELSE LET s == WindowStart(p)
             IN  IF results[j].at > s + WindowMs THEN results[j].at ELSE s

\* The position of call j among the calls of its client in its window: 1, 2, ...
RankInWindow(j) ==
    Cardinality({i \in CallsOf(results[j].identifier, j) :
                    WindowStart(i) = WindowStart(j)})

\* C1: of the requests of one client that are in flight at the same time and
\* are checked under one configuration, at most maxRequests are answered as
\* allowed within the window of the client's entry: every stored entry has
\* admitted at most maxRequests calls since its window began.
C1_NoMoreThanMaxPerWindow ==
    \A identifier \in Identifiers :
        LET key == RateLimitKey(identifier, activeConfig)
        IN  HasEntry(rateLimitStore, key) =>
              Cardinality({j \in CallsOf(identifier, Len(results)) :
                  /\ results[j].result.success
                  /\ results[j].at >= rateLimitStore[key].resetTime - WindowMs
                  /\ results[j].at <= rateLimitStore[key].resetTime})
                <= activeConfig.maxRequests

\* C1 witness: maxRequests + 1 requests of one client were in flight together
\* and handled at the same instant; the last one was denied.
C1_Witness ==
    /\ activeConfig.maxRequests = 2
    /\ Len(results) >= 3
    /\ \E i \in Identifiers : pending[i] > 0
    /\ \A j \in 1..3 : /\ results[j].identifier = results[1].identifier
                        /\ results[j].at = results[1].at
    /\ results[1].result.success /\ results[2].result.success
    /\ ~results[3].result.success

\* C2: with maxRequests = N and windowSeconds = W, the k-th call of a client in
\* a window is allowed with remaining = N - k for k <= N, and denied with
\* remaining = 0 and resetIn <= W for k > N; the first call after the window
\* has elapsed is the first call of a new window (allowed, remaining = N - 1).
C2_WindowSequence ==
    \A j \in 1..Len(results) :
        LET r == results[j].result
            k == RankInWindow(j)
        IN  IF k <= activeConfig.maxRequests
            THEN r.success /\ r.remaining = activeConfig.maxRequests - k
            ELSE /\ ~r.success
                 /\ r.remaining = 0
                 /\ r.resetIn <= activeConfig.windowSeconds

\* C2 witness: N = 2; two calls allowed, the third denied, and the call after
\* the window elapsed allowed again with remaining = 1.
C2_Witness ==
    /\ activeConfig.maxRequests = 2
    /\ Len(results) = 4
    /\ \A j \in 1..4 : results[j].identifier = results[1].identifier
    /\ results[1].result.remaining = 1 /\ results[2].result.remaining = 0
    /\ ~results[3].result.success
    /\ results[3].at <= results[1].at + WindowMs
    /\ results[4].at > results[1].at + WindowMs
    /\ results[4].result.success /\ results[4].result.remaining = 1

\* C17: every entry of the rate-limit store has 1 <= count <= maxRequests + 1,
\* after any sequence of checkRateLimit calls and sweeps under one
\* configuration with maxRequests >= 1.
C17_CountWithinBounds ==
    \A key \in DOMAIN rateLimitStore :
        /\ rateLimitStore[key].count >= 1
        /\ rateLimitStore[key].count <= activeConfig.maxRequests + 1

\* The bound the code keeps in fact: a denied call does not increment
CountAtMostMax ==
    \A key \in DOMAIN rateLimitStore :
        rateLimitStore[key].count <= activeConfig.maxRequests

\* C17 witness: a client was denied, and its entry still stands at maxRequests.
C17_Witness ==
    \E j \in 1..Len(results) :
        LET key == RateLimitKey(results[j].identifier, activeConfig)
        IN  /\ ~results[j].result.success
            /\ HasEntry(rateLimitStore, key)
            /\ rateLimitStore[key].count = activeConfig.maxRequests

\* Call k is the next call of the client of call j
NextCallOf(k, j) ==
    /\ k > j
    /\ results[k].identifier = results[j].identifier
    /\ \A i \in (j + 1)..(k - 1) : results[i].identifier # results[j].identifier

\* C28: when a call is denied at time t with resetIn = r and the client's
\* next call is made r seconds after t or later, that call is allowed.
C28_RetryAfterSuffices ==
    \A j \in 1..Len(results), k \in 1..Len(results) :
        (/\ ~results[j].result.success
         /\ NextCallOf(k, j)
         /\ results[k].at >= results[j].at + results[j].result.resetIn * MsPerSecond)
            => results[k].result.success

\* A next call later than r seconds after the denial is allowed
RetryLaterThanResetInSuffices ==
    \A j \in 1..Len(results), k \in 1..Len(results) :
        (/\ ~results[j].result.success
         /\ NextCallOf(k, j)
         /\ results[k].at > results[j].at + results[j].result.resetIn * MsPerSecond)
            => results[k].result.success

\* The allowed calls of the client of call j within windowSeconds from call j
AllowedFrom(j) ==
    {i \in CallsOf(results[j].identifier, Len(results)) :
        /\ results[i].result.success
        /\ results[i].at >= results[j].at
        /\ results[i].at <= results[j].at + WindowMs}

\* C29: in every time interval of length windowSeconds at most
\* 2 * maxRequests calls of one client are allowed (every such interval that
\* holds an allowed call is within the one that starts at its first allowed
\* call).
C29_BurstAtMostTwice ==
    \A j \in 1..Len(results) :
        Cardinality(AllowedFrom(j)) <= 2 * activeConfig.maxRequests

\* C29 witness: with maxRequests = 2, three calls of one client were allowed
\* within one interval of length windowSeconds, across the end of a window.
C29_Witness ==
    /\ activeConfig.maxRequests = 2
    /\ \E j \in 1..Len(results) :
          /\ Cardinality(AllowedFrom(j)) = 3
          /\ \E i \in AllowedFrom(j) : WindowStart(i) # WindowStart(j)

\* The burst the code allows in fact: the first call of a window starts it
BurstBelowTwice ==
    \A j \in 1..Len(results) :
        Cardinality(AllowedFrom(j)) <= 2 * activeConfig.maxRequests - 1

\* The store after the first n calls of the history when no sweep ever runs
RECURSIVE Unswept(_)
Unswept(n) ==
    IF n = 0 THEN <<>>
    ELSE checkRateLimit(Unswept(n - 1), results[n].identifier, activeConfig,
                        results[n].at).store

\* The calls of the history from the n-th on, made at their times from the
\* store without any sweep: whether every result is the recorded one, and the
\* store they leave
RECURSIVE Replay(_, _)
Replay(n, store) ==
    IF n > Len(results) THEN [agrees |-> TRUE, store |-> store]
    ELSE LET r == checkRateLimit(store, results[n].identifier, activeConfig,
                                 results[n].at)
             rest == Replay(n + 1, r.store)
         IN  [agrees |-> r.result = results[n].result /\ rest.agrees,
              store |-> rest.store]

\* C30: the sweep removes no entry whose window has not expired, and every
\* call has the result (allowed, remaining, resetIn) it has when the same
\* calls are made at the same times without any sweep.
C30_SweepNotRequired ==
    LET replay == Replay(1, <<>>)
    IN  /\ replay.agrees
        /\ \A key \in DOMAIN replay.store :
              ~(now > replay.store[key].resetTime)
                  => /\ HasEntry(rateLimitStore, key)
                     /\ rateLimitStore[key] = replay.store[key]

\* C30 witness: a call made after the window of its client's entry had
\* expired was allowed as the first of a new window, and the sweep has
\* removed an entry that had expired before that call.
C30_Witness ==
    \E n \in 1..Len(results) :
        LET key == RateLimitKey(results[n].identifier, activeConfig)
        IN  /\ HasEntry(Unswept(n - 1), key)
            /\ results[n].result.success
            /\ results[n].at > Unswept(n - 1)[key].resetTime
            /\ \E other \in DOMAIN Unswept(n) :
                  /\ ~HasEntry(rateLimitStore, other)
                  /\ Unswept(n)[other].resetTime < results[n].at

\* The step is a checkRateLimit call that keeps to its frame: denied, it
\* leaves the store as it was; allowed on an entry whose window has not
\* expired, it adds one to the count of that entry and changes nothing else
CallKeepsFrame ==
    Len(results') = Len(results) + 1 =>
        LET call == results'[Len(results')]
            key == RateLimitKey(call.identifier, activeConfig)
        IN  /\ ~call.result.success => rateLimitStore' = rateLimitStore
            /\ (/\ call.result.success
                /\ HasEntry(rateLimitStore, key)
                /\ ~(now > rateLimitStore[key].resetTime))
                  => /\ DOMAIN rateLimitStore' = DOMAIN rateLimitStore
                     /\ \A k \in DOMAIN rateLimitStore \ {key} :
                           rateLimitStore'[k] = rateLimitStore[k]
                     /\ rateLimitStore'[key].resetTime = rateLimitStore[key].resetTime
                     /\ rateLimitStore'[key].count = rateLimitStore[key].count + 1

\* C37: a denied checkRateLimit call leaves the whole store unchanged, and an
\* allowed call on a live entry changes the count of that entry only, never
\* its resetTime: calls made while a client is blocked do not extend the
\* block.
C37_DeniedCallsChangeNothing == [][CallKeepsFrame]_vars

\* C37 witness: a client was denied later than the first call of its window,
\* and its entry still ends windowSeconds after that first call.
C37_Witness ==
    \E j \in 1..Len(results) :
        LET key == RateLimitKey(results[j].identifier, activeConfig)
        IN  /\ ~results[j].result.success
            /\ results[j].at > WindowStart(j)
            /\ HasEntry(rateLimitStore, key)
            /\ rateLimitStore[key].resetTime = WindowStart(j) + WindowMs
            /\ rateLimitStore[key].count = activeConfig.maxRequests

(***************************************************************************)
(* Limiter runs: clients are checked under two of the named limiters, in    *)
(* any order, while the clock advances and the sweep fires.                 *)
(***************************************************************************)
ExercisedLimiters == {otpRateLimit, passwordResetRateLimit}

\* The start, and the instant after the window of the OTP limiter has elapsed
LimiterInstants == {0, otpRateLimit.windowSeconds * MsPerSecond + 1}

InitLimiters ==
    /\ now = 0
    /\ rateLimitStore = <<>>
    /\ activeConfig = otpRateLimit
    /\ pending = [i \in Identifiers |-> 0]
    /\ results = <<>>
    /\ sessions = NoSessions
    /\ probe = Idle
    /\ server = ConfiguredServer
    /\ browser = NoBrowser
    /\ db = NoDb

\* checkRateLimit(identifier, config) is called
Check(identifier, config) ==
    /\ Len(results) < MaxLimiterCalls
    /\ LET r == checkRateLimit(rateLimitStore, identifier, config, now)
       IN  /\ rateLimitStore' = r.store
           /\ results' = Append(results,
                  [identifier |-> identifier, prefix |-> config.prefix,
                   at |-> now, result |-> r.result])
    /\ UNCHANGED <<browser, db, server, now, activeConfig, pending, sessions, probe>>

\* The clock advances
TickLimiters ==
    /\ \E t \in LimiterInstants : t > now /\ now' = t
    /\ UNCHANGED <<browser, db, server, rateLimitStore, activeConfig, pending, results, sessions, probe>>

NextLimiters ==
    \/ \E i \in Identifiers, c \in ExercisedLimiters : Check(i, c)
    \/ Sweep
    \/ TickLimiters

SpecLimiters == InitLimiters /\ [][NextLimiters]_vars

\* The named limiter with the prefix
LimiterOf(prefix) == CHOOSE c \in NamedLimiters : c.prefix = prefix

\* The calls among the first n that were made for the client under the limiter
OwnCalls(identifier, prefix, n) ==
    SelectSeq(SubSeq(results, 1, n),
              LAMBDA call : call.identifier = identifier /\ call.prefix = prefix)

\* The outcome of the last of the calls when they are made alone, in their
\* order and at their times, on a store that starts empty
RECURSIVE Alone(_)
Alone(calls) ==
    LET n == Len(calls)
        before == IF n = 1 THEN <<>> ELSE Alone(SubSeq(calls, 1, n - 1)).store
    IN  checkRateLimit(before, calls[n].identifier, LimiterOf(calls[n].prefix),
                       calls[n].at)

\* C18: the prefixes of the named limiters are pairwise distinct and no two
\* (limiter, client) pairs share a key; every check gives the result it gives
\* when only the checks of its own limiter and client are made, and every
\* stored entry is the one those checks alone leave: a check under one limiter
\* changes nothing for another limiter or another client.
C18_IndependentKeyspaces ==
    /\ \A c, d \in NamedLimiters : c # d => c.prefix # d.prefix
    /\ \A c, d \in NamedLimiters, i, j \in Identifiers :
          RateLimitKey(i, c) = RateLimitKey(j, d) => (c.prefix = d.prefix /\ i = j)
    /\ \A n \in 1..Len(results) :
          results[n].result =
              Alone(OwnCalls(results[n].identifier, results[n].prefix, n)).result
    /\ \A i \in Identifiers, c \in ExercisedLimiters :
          LET key == RateLimitKey(i, c)
              own == OwnCalls(i, c.prefix, Len(results))
          IN  HasEntry(rateLimitStore, key) =>
                  /\ own # <<>>
                  /\ rateLimitStore[key] = Alone(own).store[key]
    /\ DOMAIN rateLimitStore \subseteq
          {RateLimitKey(i, c) : i \in Identifiers, c \in ExercisedLimiters}

\* C18 witness: the OTP limiter was exhausted for a client (a check denied),
\* and a later check of the same client under the password-reset limiter was
\* allowed with all but one of its requests remaining.
C18_Witness ==
    \E j, k \in 1..Len(results) :
        /\ j < k
        /\ results[j].prefix = otpRateLimit.prefix
        /\ ~results[j].result.success
        /\ results[k].identifier = results[j].identifier
        /\ results[k].prefix = passwordResetRateLimit.prefix
        /\ results[k].at = results[j].at
        /\ results[k].result.success
        /\ results[k].result.remaining = passwordResetRateLimit.maxRequests - 1

(***************************************************************************)
(* Session runs: users log in, the clock advances, and calls and requests  *)
(* are made with the tokens the logins issued, with altered copies of them *)
(* and with text that is no token.  One call or request is observed at a   *)
(* time, at the instant it is made.                                        *)
(***************************************************************************)
SessionMs == SessionSeconds * MsPerSecond

AuthInstants ==
    {0, MaxLoginMs}
        \cup {CsrfMaxAgeMs + d : d \in {0, 1, MaxLoginMs, MaxLoginMs + 1}}
        \cup {SessionMs + d : d \in {0 - 1, 0, 1}}

ActiveUsers == {u \in UserIds : sessions[u].active}

IssuedCsrf == {sessions[u].csrfToken : u \in ActiveUsers}

IssuedJwt == {sessions[u].authToken : u \in ActiveUsers}

\* The token with the last character of its signature segment changed
TamperSignature(token) ==
    LET text == BufferToString(Base64Decode(token))
        flipped == [text EXCEPT ![Len(text)] = IF @ = 48 THEN 49 ELSE 48]
    IN  Base64Encode(BufferFrom(flipped))

\* The token with the last character of its signature segment cut off
TruncateSignature(token) ==
    LET text == BufferToString(Base64Decode(token))
    IN  Base64Encode(BufferFrom(SubSeq(text, 1, Len(text) - 1)))

\* The token with a fourth field behind its signature: ":x"
AppendField(token) ==
    LET text == BufferToString(Base64Decode(token))
    IN  Base64Encode(BufferFrom(text \o Colon \o <<120>>))

\* The token without its signature field: "userId:timestamp"
DropSignature(token) ==
    LET parts == Split(BufferToString(Base64Decode(token)), 58)
    IN  Base64Encode(BufferFrom(parts[1] \o Colon \o parts[2]))

\* The token with "abc" for its user id, or for its timestamp
NonNumericField(token, field) ==
    LET parts == Split(BufferToString(Base64Decode(token)), 58)
        abc == <<97, 98, 99>>
    IN  Base64Encode(BufferFrom(
            (IF field = 1 THEN abc ELSE parts[1]) \o Colon
                \o (IF field = 2 THEN abc ELSE parts[2]) \o Colon \o parts[3]))

\* Text that is no base64: "!!"
GarbageToken == <<33, 33>>

\* The session token with another user id in its payload, signature kept
TamperPayload(token) == [token EXCEPT !.payload.id = @ + 1]

\* The session token signed again with a key that is not the server's: "x"
ForgeSignature(token) ==
    [token EXCEPT !.signature = JwtSignature(<<120>>, token.payload)]

CsrfProbeTokens ==
    IssuedCsrf \cup {TamperSignature(k) : k \in IssuedCsrf}
        \cup {TruncateSignature(k) : k \in IssuedCsrf} \cup {GarbageToken}
        \cup {AppendField(k) : k \in IssuedCsrf}
        \cup {DropSignature(k) : k \in IssuedCsrf}
        \cup {NonNumericField(k, field) : k \in IssuedCsrf, field \in {1, 2}}

JwtProbeTokens ==
    IssuedJwt \cup {TamperPayload(k) : k \in IssuedJwt}
        \cup {ForgeSignature(k) : k \in IssuedJwt} \cup {MalformedJwt, NoJwt}

RequestInputs(methods) ==
    [method : methods,
     pathname : {RegisterPath},
     cookies : [auth_token : {NoJwt, MalformedJwt} \cup IssuedJwt,
                csrf_token : {<<>>} \cup IssuedCsrf],
     headers : [authorization : {NoAuthorization},
                x_csrf_token : {<<>>} \cup IssuedCsrf
                                  \cup {TamperSignature(k) : k \in IssuedCsrf}]]

\* Mutation requests to paths of the exempt list
ExemptRequests ==
    [method : {"POST"},
     pathname : {LoginPath, ExemptSubPath},
     cookies : [auth_token : {NoJwt, MalformedJwt} \cup IssuedJwt,
                csrf_token : {<<>>}],
     headers : [authorization : {NoAuthorization},
                x_csrf_token : {<<>>} \cup IssuedCsrf]]

\* Requests that are no mutations
ReadRequests ==
    [method : {"GET", "HEAD"},
     pathname : {RegisterPath, LoginPath},
     cookies : [auth_token : {NoJwt, MalformedJwt} \cup IssuedJwt,
                csrf_token : {<<>>}],
     headers : [authorization : {NoAuthorization},
                x_csrf_token : {<<>>} \cup IssuedCsrf]]

\* Requests that carry a session token in the cookie, in the Authorization
\* header, in both or in neither
CarrierRequests ==
    [method : {"POST"},
     pathname : {RegisterPath},
     cookies : [auth_token : {NoJwt, MalformedJwt} \cup IssuedJwt,
                csrf_token : {<<>>}],
     headers : [authorization : {NoAuthorization, Bearer(NoJwt)}
                                   \cup {Bearer(k) : k \in IssuedJwt},
                x_csrf_token : {<<>>}]]

\* API paths: the public ones, the register route and /api/auth/me
ApiPaths ==
    {path \in publicPaths : IsApiPath(path)}
        \cup {RegisterPath, <<"api", "auth", "me">>}

\* Mutation requests to the API paths that carry a session token or none, and
\* no CSRF token
GateRequests ==
    [method : {"POST"},
     pathname : ApiPaths,
     cookies : [auth_token : {NoJwt} \cup IssuedJwt,
                csrf_token : {<<>>}],
     headers : [authorization : {NoAuthorization},
                x_csrf_token : {<<>>}]]

InitAuth ==
    /\ now = 0
    /\ rateLimitStore = <<>>
    /\ activeConfig = loginRateLimit
    /\ pending = [i \in Identifiers |-> 0]
    /\ results = <<>>
    /\ sessions = NoSessions
    /\ probe = Idle
    /\ server = ConfiguredServer
    /\ browser = NoBrowser
    /\ db = NoDb

\* POST /api/auth/login with the right password of user u, whatever cookies
\* and headers the request carries: it passes the middleware, the limiter is
\* consulted, the tokens are generated and set as cookies
Login(u) ==
    /\ probe = Idle
    /\ Serving
    /\ now <= MaxLoginMs
    /\ ~sessions[u].active
    /\ \E request \in ExemptRequests :
          /\ request.pathname = LoginPath
          /\ middleware(request) = Proceed
          /\ LET r == loginRoute(rateLimitStore, request, now)
             IN  /\ r.response = Proceed
                 /\ rateLimitStore' = r.store
    /\ sessions' = [sessions EXCEPT ![u] =
            [active |-> TRUE,
             authToken |-> generateToken(UserById(u), now),
             csrfToken |-> generateCsrfToken(u, now),
             at |-> now,
             csrfSecret |-> CSRF_SECRET,
             configured |-> server.env.CSRF_SECRET,
             boot |-> server.boot,
             loggedOut |-> FALSE]]
    /\ UNCHANGED <<browser, db, server, now, activeConfig, pending, results, probe>>

\* The clock advances
TickAuth ==
    /\ probe = Idle
    /\ \E t \in AuthInstants : t > now /\ now' = t
    /\ UNCHANGED <<browser, db, server, rateLimitStore, activeConfig, pending, results, sessions, probe>>

\* verifyCsrfToken(token, userId) is called
VerifyCsrf(token, userId) ==
    /\ probe = Idle
    /\ Serving
    /\ probe' = [op |-> "verifyCsrfToken", token |-> token, userId |-> userId,
                 outcome |-> verifyCsrfTokenCall(token, userId, now)]
    /\ UNCHANGED <<browser, db, server, now, rateLimitStore, activeConfig, pending, results, sessions>>

\* verifyToken(token) is called
VerifyJwt(token) ==
    /\ probe = Idle
    /\ Serving
    /\ probe' = [op |-> "verifyToken", token |-> token,
                 outcome |-> verifyTokenCall(token, now)]
    /\ UNCHANGED <<browser, db, server, now, rateLimitStore, activeConfig, pending, results, sessions>>

\* validateCsrf(request) is called
Guard(request) ==
    /\ probe = Idle
    /\ Serving
    /\ probe' = [op |-> "validateCsrf", request |-> request,
                 response |-> validateCsrf(request, now)]
    /\ UNCHANGED <<browser, db, server, now, rateLimitStore, activeConfig, pending, results, sessions>>

\* getUserFromRequest(request) is called
Resolve(request) ==
    /\ probe = Idle
    /\ Serving
    /\ probe' = [op |-> "getUserFromRequest", request |-> request,
                 user |-> getUserFromRequest(request, now)]
    /\ UNCHANGED <<browser, db, server, now, rateLimitStore, activeConfig, pending, results, sessions>>

\* A request reaches the server: the middleware answers it or passes it on,
\* to a route handler or (where the model has none) to the framework.  gate is
\* the answer of the middleware.
Receive(request) ==
    /\ probe = Idle
    /\ server.state # "stopped"
    /\ LET m == middleware(request)
       IN  probe' = [op |-> "request", request |-> request,
                     stage |-> IF m = Proceed /\ HasHandler(request)
                               THEN "route" ELSE "answered",
                     gate |-> m, response |-> m, business |-> FALSE]
    /\ UNCHANGED <<browser, db, server, now, rateLimitStore, activeConfig, pending, results, sessions>>

\* The route handler runs for the request the middleware has passed on
Route ==
    /\ Serving
    /\ probe.op = "request"
    /\ probe.stage = "route"
    /\ LET r == registerRoute(probe.request, now)
       IN  probe' = [probe EXCEPT !.stage = "answered",
                                  !.response = r,
                                  !.business = (r = Proceed)]
    /\ UNCHANGED <<browser, db, server, now, rateLimitStore, activeConfig, pending, results, sessions>>

\* The observation ends
Clear ==
    /\ probe # Idle
    /\ ~(probe.op = "request" /\ probe.stage = "route")
    /\ probe' = Idle
    /\ UNCHANGED <<browser, db, server, now, rateLimitStore, activeConfig, pending, results, sessions>>

\* A call or a request is made while nothing else is under observation
Observe ==
    /\ probe = Idle
    /\ \/ \E token \in CsrfProbeTokens, userId \in UserIds : VerifyCsrf(token, userId)
       \/ \E token \in JwtProbeTokens : VerifyJwt(token)
       \/ \E request \in RequestInputs({"POST"}) \cup ReadRequests : Guard(request)
       \/ \E request \in CarrierRequests : Resolve(request)
       \/ \E request \in RequestInputs({"POST"}) \cup ExemptRequests \cup ReadRequests
                              \cup GateRequests :
             Receive(request)

NextAuth ==
    \/ \E u \in UserIds : Login(u)
    \/ TickAuth
    \/ Observe
    \/ Route
    \/ Clear

SpecAuth == InitAuth /\ [][NextAuth]_vars

(***************************************************************************)
(* Properties of the session runs.                                         *)
(***************************************************************************)
\* An /api/ path that is neither public nor exempt from the CSRF check
ProtectedApiPath(pathname) ==
    /\ IsApiPath(pathname)
    /\ ~\E path \in publicPaths : PathMatches(pathname, path)
    /\ ~\E path \in csrfExemptPaths : PathMatches(pathname, path)

\* The CSRF token a request carries: the header, else the cookie
CarriedCsrf(request) ==
    IF request.headers.x_csrf_token # <<>>
    THEN request.headers.x_csrf_token
    ELSE request.cookies.csrf_token

\* The token is the one the login of user u issued
IssuedTo(token, u) == sessions[u].active /\ sessions[u].csrfToken = token

\* The token is an altered copy of an issued one
Altered(token) ==
    \E k \in IssuedCsrf : token \in {TamperSignature(k), TruncateSignature(k)}

AnsweredMutation ==
    /\ probe.op = "request"
    /\ probe.stage = "answered"
    /\ IsMutation(probe.request.method)
    /\ ProtectedApiPath(probe.request.pathname)

\* C3: an authenticated mutation request to a protected, non-exempt API path
\* that carries a CSRF token issued for another user is answered 403 and does
\* not reach the business logic of the handler.
C3_ForeignCsrfAnswered403 ==
    AnsweredMutation =>
        LET user == getUserFromRequest(probe.request, now)
        IN  (/\ user # Null
             /\ \E v \in UserIds : /\ v # user.id
                                   /\ IssuedTo(CarriedCsrf(probe.request), v))
                => probe.response.status = 403 /\ ~probe.business

\* C4: a mutation request to a protected, non-exempt API path from which no
\* identity resolves is answered 401 (never 403 for its CSRF token).
C4_NoIdentityAnswered401 ==
    AnsweredMutation =>
        (getUserFromRequest(probe.request, now) = Null
            => probe.response.status = 401)

\* C5: a CSRF token issued for user u verifies for u at the instant it is
\* issued, and verifies for no other user at any time.
C5_CsrfBoundToUser ==
    probe.op = "verifyCsrfToken" =>
        \A u \in UserIds :
            IssuedTo(probe.token, u) =>
                /\ (probe.userId = u /\ now = sessions[u].at)
                        => probe.outcome = Returned(TRUE)
                /\ probe.userId # u => probe.outcome = Returned(FALSE)

\* C5 witness: the token of one user was checked for the other user, at a time
\* at which it is still fresh.
C5_Witness ==
    /\ probe.op = "verifyCsrfToken"
    /\ \E u \in UserIds : /\ IssuedTo(probe.token, u)
                          /\ probe.userId # u
                          /\ now - sessions[u].at <= CsrfMaxAgeMs
    /\ probe.outcome = Returned(FALSE)

\* C6: a CSRF token issued for u at time t is accepted for u at every time
\* now with 0 <= now - t <= 24 hours, and rejected at every later time.
C6_CsrfValidFor24Hours ==
    probe.op = "verifyCsrfToken" =>
        \A u \in UserIds :
            (IssuedTo(probe.token, u) /\ probe.userId = u) =>
                /\ now - sessions[u].at >= 0
                /\ probe.outcome.value = (now - sessions[u].at <= CsrfMaxAgeMs)

\* C6 witness: the token was rejected for its own user one millisecond after
\* the 24 hours.
C6_Witness ==
    /\ probe.op = "verifyCsrfToken"
    /\ \E u \in UserIds : /\ IssuedTo(probe.token, u)
                          /\ probe.userId = u
                          /\ now - sessions[u].at = CsrfMaxAgeMs + 1
    /\ probe.outcome = Returned(FALSE)

\* The CSRF token is rejected for user u for one of the causes: altered
\* signature, older than 24 hours, issued to another user
RejectionCause(token, u) ==
    \/ Altered(token)
    \/ \E v \in UserIds : /\ IssuedTo(token, v)
                          /\ (v # u \/ now - sessions[v].at > CsrfMaxAgeMs)

\* C7: a token with an altered signature fails verification, and every cause
\* of rejection (altered, expired, another user's) has the same outcome:
\* verifyCsrfToken returns false (no exception, no other value) and
\* validateCsrf returns the one response 403 "Invalid CSRF token".
C7_RejectionsIndistinguishable ==
    /\ probe.op = "verifyCsrfToken" =>
          (RejectionCause(probe.token, probe.userId)
              => probe.outcome = Returned(FALSE))
    /\ probe.op = "validateCsrf" =>
          LET user == getUserFromRequest(probe.request, now)
          IN  (/\ IsMutation(probe.request.method)
               /\ user # Null
               /\ RejectionCause(CarriedCsrf(probe.request), user.id))
                  => probe.response = errorResponse("Invalid CSRF token", 403)

\* C7 witness: verifyCsrfToken was called for the right user with a fresh
\* token whose signature had lost its last character.
C7_Witness ==
    /\ probe.op = "verifyCsrfToken"
    /\ \E u \in UserIds :
          /\ sessions[u].active
          /\ probe.token = TruncateSignature(sessions[u].csrfToken)
          /\ probe.userId = u
          /\ now = sessions[u].at
    /\ probe.outcome = Returned(FALSE)

\* The instant from which the session token of user u is expired: its exp,
\* the second of issue plus 7 days
ExpiryMs(u) ==
    ((sessions[u].at \div MsPerSecond) + SessionSeconds) * MsPerSecond

\* C8: verifyToken(generateToken(identity)) returns an identity with the same
\* id, email and username at every time before the expiry of the token (issue
\* time + 7 days), and null at every time after it.
C8_SessionRoundTrip ==
    probe.op = "verifyToken" =>
        \A u \in ActiveUsers :
            probe.token = sessions[u].authToken =>
                LET v == probe.outcome.value
                IN  /\ now < ExpiryMs(u) =>
                          /\ v # Null
                          /\ v.id = u
                          /\ v.email = UserById(u).email
                          /\ v.username = UserById(u).username
                    /\ now > ExpiryMs(u) => v = Null

\* C8 witness: the token of a login was verified one millisecond after its
\* expiry and null came back.
C8_Witness ==
    /\ probe.op = "verifyToken"
    /\ \E u \in ActiveUsers : /\ probe.token = sessions[u].authToken
                              /\ now = ExpiryMs(u) + 1
    /\ probe.outcome.value = Null

\* The session token cannot be trusted: it is no JWT, its payload or its
\* signature is not what the server signed, or it is expired
Untrusted(token) ==
    \/ token \in {MalformedJwt, NoJwt}
    \/ \E k \in IssuedJwt : token \in {TamperPayload(k), ForgeSignature(k)}
    \/ \E u \in ActiveUsers : token = sessions[u].authToken /\ now >= ExpiryMs(u)

\* C9: verifyToken never throws; it returns an identity or null, and it
\* returns the same null for a malformed token, for a signature mismatch and
\* for an expired token.
C9_VerifyTokenNeverThrows ==
    probe.op = "verifyToken" =>
        /\ ~probe.outcome.threw
        /\ \/ probe.outcome.value = Null
           \/ \E u \in ActiveUsers :
                 probe.outcome.value = sessions[u].authToken.payload
        /\ Untrusted(probe.token) => probe.outcome = Returned(Null)

\* C9 witness: verifyToken was called with a token signed with a foreign key.
C9_Witness ==
    /\ probe.op = "verifyToken"
    /\ \E k \in IssuedJwt : probe.token = ForgeSignature(k)
    /\ probe.outcome = Returned(Null)

\* The user whose unexpired session token the request carries in its cookie
SessionUsers(request) ==
    {u \in ActiveUsers : /\ request.cookies.auth_token = sessions[u].authToken
                         /\ now < ExpiryMs(u)}

\* C10: for a mutation request from which an identity resolves, validateCsrf
\* returns 403 "CSRF token missing" when neither the header nor the cookie
\* supplies a token, 403 "Invalid CSRF token" when the supplied token does not
\* verify for the identity's id, and null exactly when it does.
C10_GuardDecision ==
    probe.op = "validateCsrf" =>
        \A u \in SessionUsers(probe.request) :
            IsMutation(probe.request.method) =>
                LET carried == CarriedCsrf(probe.request)
                    valid == verifyCsrfToken(carried, u, now)
                IN  /\ carried = <<>> =>
                          probe.response = errorResponse("CSRF token missing", 403)
                    /\ (carried # <<>> /\ ~valid) =>
                          probe.response = errorResponse("Invalid CSRF token", 403)
                    /\ (probe.response = Proceed) = (carried # <<>> /\ valid)

\* C10 witness: a POST of a logged-in user carried no CSRF token in the header
\* and the user's own fresh token in the cookie, and the guard let it proceed.
C10_Witness ==
    /\ probe.op = "validateCsrf"
    /\ probe.request.method = "POST"
    /\ probe.request.headers.x_csrf_token = <<>>
    /\ \E u \in SessionUsers(probe.request) :
          /\ IssuedTo(probe.request.cookies.csrf_token, u)
          /\ now - sessions[u].at <= CsrfMaxAgeMs
    /\ probe.response = Proceed

\* C11: when no identity resolves from a mutation request, validateCsrf
\* returns null (the request passes through), whatever CSRF token the request
\* carries or lacks.
C11_NoIdentityPassesGuard ==
    probe.op = "validateCsrf" =>
        ((/\ IsMutation(probe.request.method)
          /\ getUserFromRequest(probe.request, now) = Null)
            => probe.response = Proceed)

\* C11 witness: a POST with a session cookie that is no JWT and with no CSRF
\* token at all was let through by the guard.
C11_Witness ==
    /\ probe.op = "validateCsrf"
    /\ probe.request.method = "POST"
    /\ probe.request.cookies.auth_token = MalformedJwt
    /\ CarriedCsrf(probe.request) = <<>>
    /\ probe.response = Proceed

\* The path is /api/auth/ login, send-otp, verify-otp, forgot-password or
\* reset-password, or a path below one of them
OnExemptList(pathname) ==
    /\ Len(pathname) >= 3
    /\ pathname[1] = "api" /\ pathname[2] = "auth"
    /\ pathname[3] \in {"login", "send-otp", "verify-otp", "forgot-password",
                        "reset-password"}

ReadMethod(method) == method \notin {"POST", "PUT", "DELETE", "PATCH"}

\* C13: for a request whose method is not POST, PUT, DELETE or PATCH,
\* validateCsrf returns null whatever identity, path and CSRF token it has, and
\* the middleware asks no CSRF token of it: it never answers 403, and passes
\* the request on whenever it carries a session token.
C13_ReadsNotGuarded ==
    /\ probe.op = "validateCsrf" =>
          (ReadMethod(probe.request.method) => probe.response = Proceed)
    /\ probe.op = "request" =>
          (ReadMethod(probe.request.method)
              => /\ probe.gate.status # 403
                 /\ HasJwt(probe.request.cookies.auth_token) => probe.gate = Proceed)

\* C13 witness: validateCsrf let a GET of a logged-in user pass that carried
\* no CSRF token.
C13_Witness ==
    /\ probe.op = "validateCsrf"
    /\ probe.request.method = "GET"
    /\ SessionUsers(probe.request) # {}
    /\ CarriedCsrf(probe.request) = <<>>
    /\ probe.response = Proceed

\* C14: an authenticated mutation request to a protected, non-exempt API path
\* that has no X-CSRF-Token header is answered 403 by the middleware and does
\* not reach the business logic, with or without a csrf_token cookie.
C14_HeaderRequired ==
    probe.op = "request" =>
        ((/\ ~ReadMethod(probe.request.method)
          /\ ProtectedApiPath(probe.request.pathname)
          /\ SessionUsers(probe.request) # {}
          /\ probe.request.headers.x_csrf_token = <<>>)
            => /\ probe.stage = "answered"
               /\ probe.gate.status = 403
               /\ probe.response.status = 403
               /\ ~probe.business)

\* C14 witness: the POST of a logged-in user carried the user's own valid CSRF
\* token in the cookie but no header, and was answered 403.
C14_Witness ==
    /\ probe.op = "request"
    /\ probe.request.method = "POST"
    /\ probe.request.pathname = RegisterPath
    /\ probe.request.headers.x_csrf_token = <<>>
    /\ \E u \in SessionUsers(probe.request) :
          /\ IssuedTo(probe.request.cookies.csrf_token, u)
          /\ now - sessions[u].at <= CsrfMaxAgeMs
    /\ probe.response.status = 403
    /\ ~probe.business

\* The request is a mutation to a protected path that carries the session
\* cookie and, in the header, the CSRF token of the login of user u, within
\* 24 hours of that login
OwnTokens(request, u) ==
    /\ sessions[u].active
    /\ ~ReadMethod(request.method)
    /\ ProtectedApiPath(request.pathname)
    /\ request.cookies.auth_token = sessions[u].authToken
    /\ request.headers.x_csrf_token = sessions[u].csrfToken
    /\ now - sessions[u].at <= CsrfMaxAgeMs

\* C15: within 24 hours of a login, a mutation request to a protected API path
\* with the auth_token cookie and, in X-CSRF-Token, the CSRF token of that
\* login passes the middleware and validateCsrf and reaches the business logic.
C15_OwnTokensPass ==
    \A u \in UserIds :
        /\ (probe.op = "request" /\ OwnTokens(probe.request, u))
              => /\ probe.gate = Proceed
                 /\ probe.stage = "answered" => probe.business
        /\ (probe.op = "validateCsrf" /\ OwnTokens(probe.request, u))
              => probe.response = Proceed

\* C15 witness: such a request reached the business logic exactly 24 hours
\* after the login.
C15_Witness ==
    /\ probe.op = "request"
    /\ \E u \in UserIds : /\ OwnTokens(probe.request, u)
                          /\ now - sessions[u].at = CsrfMaxAgeMs
    /\ probe.stage = "answered"
    /\ probe.business

\* The token is the session token of the login of user u and is not expired
ValidFor(token, u) ==
    /\ sessions[u].active
    /\ token = sessions[u].authToken
    /\ now < ExpiryMs(u)

\* C16: getUserFromRequest returns the identity of a valid token in the
\* auth_token cookie whatever the Authorization header holds; without that
\* cookie it returns the identity of a valid token in "Bearer <token>"; with
\* neither cookie nor header it returns null.
C16_CookieThenHeader ==
    probe.op = "getUserFromRequest" =>
        LET cookie == probe.request.cookies.auth_token
            header == probe.request.headers.authorization
        IN  /\ \A u \in UserIds :
                  ValidFor(cookie, u) =>
                      /\ probe.user # Null
                      /\ probe.user.id = u
                      /\ probe.user.email = UserById(u).email
            /\ \A u \in UserIds :
                  (/\ cookie = NoJwt
                   /\ header.scheme = "Bearer"
                   /\ ValidFor(header.credentials, u))
                      => /\ probe.user # Null
                         /\ probe.user.id = u
                         /\ probe.user.email = UserById(u).email
            /\ (cookie = NoJwt /\ header = NoAuthorization) => probe.user = Null

\* C16 witness: the cookie held the valid token of one user and the header
\* the valid token of the other; the user of the cookie was returned.
C16_Witness ==
    /\ probe.op = "getUserFromRequest"
    /\ \E u, v \in UserIds :
          /\ u # v
          /\ ValidFor(probe.request.cookies.auth_token, u)
          /\ probe.request.headers.authorization.scheme = "Bearer"
          /\ ValidFor(probe.request.headers.authorization.credentials, v)
          /\ probe.user # Null
          /\ probe.user.id = u

\* The auth_token cookie holds a token that fails verification: text that is
\* no token, or an issued token at or after its expiry
CookieFails(request) ==
    \/ request.cookies.auth_token = MalformedJwt
    \/ \E u \in ActiveUsers :
          /\ request.cookies.auth_token = sessions[u].authToken
          /\ now >= ExpiryMs(u)

\* C38: when the auth_token cookie holds a token that fails verification,
\* getUserFromRequest returns null whatever the Authorization header holds,
\* a valid Bearer token included.
C38_NoFallbackFromBadCookie ==
    probe.op = "getUserFromRequest" =>
        (CookieFails(probe.request) => probe.user = Null)

\* C38 witness: the cookie held text that is no token, the header the valid
\* token of a user, and null was returned.
C38_Witness ==
    /\ probe.op = "getUserFromRequest"
    /\ probe.request.cookies.auth_token = MalformedJwt
    /\ probe.request.headers.authorization.scheme = "Bearer"
    /\ \E v \in UserIds :
          ValidFor(probe.request.headers.authorization.credentials, v)
    /\ probe.user = Null

\* The token is the CSRF token of the login of user u, not older than 24 hours
FreshFor(token, u) ==
    IssuedTo(token, u) /\ now - sessions[u].at <= CsrfMaxAgeMs

\* C32: for a mutation request of a logged-in user that carries a non-empty
\* X-CSRF-Token header, validateCsrf decides by the header's token alone,
\* whatever the csrf_token cookie holds; the cookie's token decides only when
\* the header is absent or empty.
C32_HeaderBeforeCookie ==
    probe.op = "validateCsrf" =>
        \A u \in SessionUsers(probe.request) :
            IsMutation(probe.request.method) =>
                LET header == probe.request.headers.x_csrf_token
                    cookie == probe.request.cookies.csrf_token
                IN  /\ header # <<>> =>
                          (probe.response = Proceed) = FreshFor(header, u)
                    /\ (header = <<>> /\ cookie # <<>>) =>
                          (probe.response = Proceed) = FreshFor(cookie, u)

\* C32 witness: a POST of a logged-in user with an altered token in the header
\* and the user's own fresh token in the cookie was rejected.
C32_Witness ==
    /\ probe.op = "validateCsrf"
    /\ probe.request.method = "POST"
    /\ \E u \in SessionUsers(probe.request) :
          /\ probe.request.headers.x_csrf_token = TamperSignature(sessions[u].csrfToken)
          /\ FreshFor(probe.request.cookies.csrf_token, u)
    /\ probe.response.status = 403

\* A POST with the user's own fresh token in the header and another user's
\* token in the cookie was accepted
ValidHeaderInvalidCookieAccepted ==
    /\ probe.op = "validateCsrf"
    /\ probe.request.method = "POST"
    /\ \E u \in SessionUsers(probe.request), v \in ActiveUsers :
          /\ u # v
          /\ FreshFor(probe.request.headers.x_csrf_token, u)
          /\ probe.request.cookies.csrf_token = sessions[v].csrfToken
    /\ probe.response = Proceed

(***************************************************************************)
(* Reuse runs: users log in and then use the CSRF token of their login      *)
(* again and again, in calls of verifyCsrfToken and in mutation requests,   *)
(* while the clock advances past the 24 hours.                              *)
(***************************************************************************)
ReuseInstants == {0, CsrfMaxAgeMs, CsrfMaxAgeMs + 1}

\* The POST /api/registrations/register of user u with the tokens of the login
OwnRequest(u) ==
    [method |-> "POST",
     pathname |-> RegisterPath,
     cookies |-> [auth_token |-> sessions[u].authToken,
                  csrf_token |-> sessions[u].csrfToken],
     headers |-> [authorization |-> NoAuthorization,
                  x_csrf_token |-> sessions[u].csrfToken]]

\* verifyCsrfToken is called with the token of user u, for user u
Use(u) ==
    /\ sessions[u].active
    /\ Len(results) < MaxUses
    /\ results' = Append(results,
          [user |-> u, kind |-> "verify", at |-> now,
           ok |-> verifyCsrfToken(sessions[u].csrfToken, u, now)])
    /\ UNCHANGED <<browser, db, server, now, rateLimitStore, activeConfig, pending, sessions, probe>>

\* User u sends a mutation request with the tokens of the login: middleware,
\* then the route handler
Mutate(u) ==
    /\ sessions[u].active
    /\ Len(results) < MaxUses
    /\ results' = Append(results,
          [user |-> u, kind |-> "mutation", at |-> now,
           ok |-> /\ middleware(OwnRequest(u)) = Proceed
                  /\ registerRoute(OwnRequest(u), now) = Proceed])
    /\ UNCHANGED <<browser, db, server, now, rateLimitStore, activeConfig, pending, sessions, probe>>

\* The clock advances
TickReuse ==
    /\ \E t \in ReuseInstants : t > now /\ now' = t
    /\ UNCHANGED <<browser, db, server, rateLimitStore, activeConfig, pending, results, sessions, probe>>

NextReuse ==
    \/ \E u \in UserIds : Login(u)
    \/ \E u \in UserIds : Use(u)
    \/ \E u \in UserIds : Mutate(u)
    \/ TickReuse

SpecReuse == InitAuth /\ [][NextReuse]_vars

\* C19: a CSRF token is not used up: every check of the token for its user
\* within 24 hours of its issue gives true, however many checks and successful
\* mutations with the token came before, and every mutation within the 24
\* hours goes through.
C19_TokenReusable ==
    \A j \in 1..Len(results) :
        results[j].at - sessions[results[j].user].at <= CsrfMaxAgeMs
            => results[j].ok

\* C19 witness: a token was checked, used in a successful mutation, and then
\* checked twice more with the result true, the last time 24 hours after
\* its issue.
C19_Witness ==
    /\ Len(results) = 3
    /\ \A j \in 1..3 : results[j].user = results[1].user /\ results[j].ok
    /\ results[1].kind = "verify"
    /\ results[2].kind = "mutation"
    /\ results[3].kind = "verify"
    /\ results[3].at - sessions[results[1].user].at = CsrfMaxAgeMs

\* The number of colon-delimited fields of the decoded text of a CSRF token
FieldCount(token) == Len(Split(BufferToString(Base64Decode(token)), 58))

\* C20: verifyCsrfToken rejects every token whose decoded text does not split
\* into exactly 3 colon-delimited fields, be they fewer or more.
C20_WrongFieldCountRejected ==
    probe.op = "verifyCsrfToken" =>
        (FieldCount(probe.token) # 3 => probe.outcome = Returned(FALSE))

\* A token with fewer than 3 fields is rejected
FewerFieldsRejected ==
    probe.op = "verifyCsrfToken" =>
        (FieldCount(probe.token) < 3 => probe.outcome = Returned(FALSE))

\* The token is no base64, lacks its signature field, has a signature of
\* another length, or has a user id or a timestamp that is no number
Unparsable(token) ==
    \/ token = GarbageToken
    \/ \E k \in IssuedCsrf :
          token \in {TruncateSignature(k), DropSignature(k),
                     NonNumericField(k, 1), NonNumericField(k, 2)}

\* C21: verifyCsrfToken never throws and returns a boolean for every token and
\* every user id; for a token that cannot be decoded, parsed or compared it
\* returns false.
C21_VerifyCsrfTotal ==
    probe.op = "verifyCsrfToken" =>
        /\ ~probe.outcome.threw
        /\ probe.outcome.value \in BOOLEAN
        /\ Unparsable(probe.token) => probe.outcome = Returned(FALSE)

\* C21 witness: verifyCsrfToken was called for the right user with a fresh
\* token that lacks its signature field, and returned false.
C21_Witness ==
    /\ probe.op = "verifyCsrfToken"
    /\ \E u \in UserIds :
          /\ sessions[u].active
          /\ probe.token = DropSignature(sessions[u].csrfToken)
          /\ probe.userId = u
          /\ now = sessions[u].at
    /\ probe.outcome = Returned(FALSE)

(***************************************************************************)
(* Client-address runs: login requests arrive with the address headers a   *)
(* proxy has set or not set; the handler derives the client identifier     *)
(* and consults the login limiter.                                         *)
(***************************************************************************)
\* X-Forwarded-For values: none, "1", " 1 ", "1,2", " 2\t, 1", ",1", " "
ForwardedValues ==
    {<<>>, <<49>>, <<32, 49, 32>>, <<49, 44, 50>>, <<32, 50, 9, 44, 32, 49>>,
     <<44, 49>>, <<32>>}

\* X-Real-IP values: none, "3"
RealIpValues == {<<>>, <<51>>}

AddressHeaders == [x_forwarded_for : ForwardedValues, x_real_ip : RealIpValues]

\* POST /api/auth/login up to its rate-limit check, from a client whose
\* request carries the address headers
Connect(headers) ==
    /\ Len(results) < MaxConnects
    /\ LET clientIp == getClientIp(headers)
           r == checkRateLimit(rateLimitStore, clientIp, loginRateLimit, now)
       IN  /\ rateLimitStore' = r.store
           /\ results' = Append(results,
                  [headers |-> headers, identifier |-> clientIp,
                   at |-> now, result |-> r.result])
    /\ UNCHANGED <<browser, db, now, activeConfig, pending, sessions, probe, server>>

NextClientIp == \E headers \in AddressHeaders : Connect(headers)

SpecClientIp == InitAuth /\ [][NextClientIp]_vars

\* text is the first comma-separated entry of list without the white space
\* around it
TrimmedFirstEntry(text, list) ==
    LET commas == {i \in 1..Len(list) : list[i] = 44}
        end == IF commas = {} THEN Len(list) + 1
               ELSE CHOOSE c \in commas : \A d \in commas : c <= d
    IN  /\ \E i \in 1..end, j \in 0..(end - 1) :
              /\ text = SubSeq(list, i, j)
              /\ \A k \in 1..(i - 1) : list[k] \in {32, 9}
              /\ \A k \in (j + 1)..(end - 1) : list[k] \in {32, 9}
        /\ text # <<>> => (text[1] \notin {32, 9} /\ text[Len(text)] \notin {32, 9})

\* The requests up to the n-th that carry neither address header
Unaddressed(n) ==
    {j \in 1..n : /\ results[j].headers.x_forwarded_for = <<>>
                  /\ results[j].headers.x_real_ip = <<>>}

\* C26: the client identifier is the trimmed first comma-separated entry of
\* X-Forwarded-For when the header is present and not empty, else X-Real-IP
\* when present and not empty, else "unknown"; the requests with neither
\* header draw on one entry of the limiter: the k-th of them is left
\* maxRequests - k.
C26_ClientIpDerivation ==
    \A n \in 1..Len(results) :
        LET headers == results[n].headers
            clientIp == results[n].identifier
        IN  /\ headers.x_forwarded_for # <<>>
                  => TrimmedFirstEntry(clientIp, headers.x_forwarded_for)
            /\ (headers.x_forwarded_for = <<>> /\ headers.x_real_ip # <<>>)
                  => clientIp = headers.x_real_ip
            /\ n \in Unaddressed(n)
                  => /\ clientIp = <<117, 110, 107, 110, 111, 119, 110>>
                     /\ results[n].result.success
                     /\ results[n].result.remaining
                            = loginRateLimit.maxRequests - Cardinality(Unaddressed(n))

\* C26 witness: a request with X-Forwarded-For " 2<tab>, 1" and an X-Real-IP
\* was identified as "2", and two requests without either header followed,
\* the second left with maxRequests - 2.
C26_Witness ==
    /\ Len(results) = 3
    /\ results[1].headers.x_forwarded_for = <<32, 50, 9, 44, 32, 49>>
    /\ results[1].headers.x_real_ip = <<51>>
    /\ results[1].identifier = <<50>>
    /\ Unaddressed(3) = {2, 3}
    /\ results[3].result.remaining = loginRateLimit.maxRequests - 2

(***************************************************************************)
(* Login runs: one client posts to the login, verify-otp and               *)
(* reset-password endpoints, with credentials of every kind, across the    *)
(* end of a window of the login limiter.                                   *)
(***************************************************************************)
\* The start, and the millisecond after the window of a first request at the
\* start
LoginInstants == {0, loginRateLimit.windowSeconds * MsPerSecond + 1}

\* Login bodies: the right password, a wrong one, an unknown email, and a
\* body that fails loginSchema (password: "")
LoginBodies ==
    {[email |-> "alice@example.com", password |-> "alice-pw"],
     [email |-> "alice@example.com", password |-> "wrong-pw"],
     [email |-> "carol@example.com", password |-> "alice-pw"],
     [email |-> "alice@example.com", password |-> ""]}

\* The client of the login runs: "1"
LoginClient == <<49>>

\* A POST to one of the three endpoints
Post(endpoint, body) ==
    /\ Len(results) < MaxPosts
    /\ LET r == IF endpoint = "login"
                THEN loginPost(rateLimitStore, LoginClient, body, now)
                ELSE otpPost(rateLimitStore, LoginClient, now)
       IN  /\ rateLimitStore' = r.store
           /\ results' = Append(results,
                  [endpoint |-> endpoint, identifier |-> LoginClient, at |-> now,
                   passed |-> r.response.status # 429])
           /\ probe' = [op |-> "post", endpoint |-> endpoint, body |-> body,
                        steps |-> r.steps, response |-> r.response,
                        cookies |-> r.cookies]
    /\ UNCHANGED <<browser, db, now, activeConfig, pending, sessions, server>>

\* The clock advances
TickLogin ==
    /\ \E t \in LoginInstants : t > now /\ now' = t
    /\ UNCHANGED <<browser, db, rateLimitStore, activeConfig, pending, results, sessions,
                   probe, server>>

NextLogin ==
    \/ \E body \in LoginBodies : Post("login", body)
    \/ \E endpoint \in {"verify-otp", "reset-password"} :
          Post(endpoint, [email |-> "", password |-> ""])
    \/ TickLogin

SpecLogin == InitAuth /\ [][NextLogin]_vars

\* The history of the login runs read in one pass, call by call: the window
\* of the client's entry starts at the first call and at every call later
\* than a full window after the start before it. For the first n calls:
\* the start of the last window, the calls in it so far, the login calls of
\* it that got past the limiter, whether every call got past the limiter
\* exactly when it was among the first five of its window, and the largest
\* number of login calls that got past the limiter in one window.
RECURSIVE LoginWindows(_)
LoginWindows(n) ==
    IF n = 0
    THEN [start |-> 0, calls |-> 0, logins |-> 0, agrees |-> TRUE, most |-> 0]
    ELSE LET before == LoginWindows(n - 1)
             call == results[n]
             fresh == n = 1 \/ call.at > before.start + WindowMs
             rank == IF fresh THEN 1 ELSE before.calls + 1
             mine == IF call.endpoint = "login" /\ call.passed THEN 1 ELSE 0
             logins == IF fresh THEN mine ELSE before.logins + mine
         IN  [start |-> IF fresh THEN call.at ELSE before.start,
              calls |-> rank,
              logins |-> logins,
              agrees |-> before.agrees
                            /\ call.passed = (rank <= loginRateLimit.maxRequests),
              most |-> IF logins > before.most THEN logins ELSE before.most]

\* C31: a login request the limiter denies is answered 429 with no step
\* behind the limiter run (no body parsed, no user looked up, no password
\* verified, no token generated) and no cookie set; a password is verified
\* only for a request that got past the limiter, and in one window of the
\* client's entry at most 5 login requests get past it, so that at most 5
\* passwords are verified through the login endpoint per window.
C31_LimiterBeforeCredentials ==
    /\ (probe.op = "post" /\ probe.endpoint = "login") =>
          /\ probe.response.status = 429
                => (probe.steps = NoSteps /\ probe.cookies = NoCookies)
          /\ probe.steps.verified => results[Len(results)].passed
          /\ probe.steps.issued =>
                (probe.body.password = "alice-pw"
                    /\ probe.body.email = "alice@example.com")
    /\ LoginWindows(Len(results)).most <= loginRateLimit.maxRequests

\* C31 witness: five login requests got past the limiter in one window, and a
\* sixth login request in that window, with the right password, was answered
\* 429.
C31_Witness ==
    /\ Len(results) = 6
    /\ \A j \in 1..5 : results[j].endpoint = "login" /\ results[j].passed
    /\ LoginWindows(6).calls = 6
    /\ probe.op = "post"
    /\ probe.endpoint = "login"
    /\ probe.body = [email |-> "alice@example.com", password |-> "alice-pw"]
    /\ probe.response.status = 429

\* C36: the login, verify-otp and reset-password endpoints count on one
\* entry per client: the k-th request of a window to any of the three gets
\* past the limiter exactly when k <= 5, so that at most 5 requests in total
\* get past it in one window and a request to one endpoint leaves one less
\* for the other two.
C36_SharedLoginCounter ==
    LoginWindows(Len(results)).agrees

\* C36 witness: requests to verify-otp and reset-password used up the window,
\* and the first login request of the window was answered 429.
C36_Witness ==
    /\ Len(results) = 6
    /\ LoginWindows(6).calls = 6
    /\ \A j \in 1..5 : results[j].endpoint # "login" /\ results[j].passed
    /\ \E j \in 1..5 : results[j].endpoint = "verify-otp"
    /\ \E j \in 1..5 : results[j].endpoint = "reset-password"
    /\ results[6].endpoint = "login"
    /\ ~results[6].passed

(***************************************************************************)
(* Send-OTP runs: clients request one-time passwords over more than an     *)
(* hour; every request consults the registration limiter and the OTP       *)
(* limiter.                                                                *)
(***************************************************************************)
\* The start, the last millisecond of the registration window of a first
\* request at the start, and the millisecond after it
SendOtpInstants ==
    {0, registerRateLimit.windowSeconds * MsPerSecond,
     registerRateLimit.windowSeconds * MsPerSecond + 1}

\* POST /api/auth/send-otp from the client
SendOtp(identifier) ==
    /\ Len(results) < MaxOtpRequests
    /\ LET r == sendOtpRoute(rateLimitStore, identifier, now)
       IN  /\ rateLimitStore' = r.store
           /\ results' = Append(results,
                  [identifier |-> identifier, at |-> now,
                   stoppedBy |-> r.stoppedBy, response |-> r.response,
                   before |-> rateLimitStore, after |-> r.store])
    /\ UNCHANGED <<browser, db, now, activeConfig, pending, sessions, probe, server>>

\* The clock advances
TickSendOtp ==
    /\ \E t \in SendOtpInstants : t > now /\ now' = t
    /\ UNCHANGED <<browser, db, rateLimitStore, activeConfig, pending, results, sessions,
                   probe, server>>

NextSendOtp ==
    \/ \E i \in Identifiers : SendOtp(i)
    \/ TickSendOtp

SpecSendOtp == InitAuth /\ [][NextSendOtp]_vars

\* C27: a send-otp request that is answered 429 leaves the store of the
\* limiter, and with it the client's entries of the registration limiter and
\* of the OTP limiter, as it was before the request.
C27_RejectionConsumesNothing ==
    \A n \in 1..Len(results) :
        results[n].response.status = 429 => results[n].after = results[n].before

\* A request the registration limiter stops leaves the store as it was
RegisterRejectionConsumesNothing ==
    \A n \in 1..Len(results) :
        results[n].stoppedBy = "register" => results[n].after = results[n].before

\* A request the OTP limiter stops leaves the OTP entry as it was
OtpRejectionKeepsOtpEntry ==
    \A n \in 1..Len(results) :
        results[n].stoppedBy = "otp" =>
            LET key == RateLimitKey(results[n].identifier, otpRateLimit)
            IN  results[n].after[key] = results[n].before[key]

\* The request carries no session token
Anonymous(request) ==
    /\ request.cookies.auth_token = NoJwt
    /\ request.headers.authorization = NoAuthorization

\* C25: an API request without a session token passes the middleware exactly
\* when its path is login, send-otp, verify-otp, forgot-password or
\* reset-password (or below one of them), and a mutation request with a
\* session token and without a CSRF token passes it exactly for the same
\* paths.
C25_AccessExemptIsCsrfExempt ==
    (probe.op = "request" /\ IsApiPath(probe.request.pathname)) =>
        /\ Anonymous(probe.request)
              => (probe.gate = Proceed <=> OnExemptList(probe.request.pathname))
        /\ (/\ HasJwt(probe.request.cookies.auth_token)
            /\ IsMutation(probe.request.method)
            /\ probe.request.headers.x_csrf_token = <<>>)
              => (probe.gate = Proceed <=> OnExemptList(probe.request.pathname))

\* Without a session token the API paths that pass are the five and logout
AccessExemptIsCsrfExemptOrLogout ==
    (probe.op = "request" /\ IsApiPath(probe.request.pathname)) =>
        /\ Anonymous(probe.request)
              => (probe.gate = Proceed
                    <=> \/ OnExemptList(probe.request.pathname)
                        \/ PathMatches(probe.request.pathname,
                                       <<"api", "auth", "logout">>))
        /\ (/\ HasJwt(probe.request.cookies.auth_token)
            /\ IsMutation(probe.request.method)
            /\ probe.request.headers.x_csrf_token = <<>>)
              => (probe.gate = Proceed <=> OnExemptList(probe.request.pathname))

(***************************************************************************)
(* Process runs: the server process starts (lib/auth.ts is evaluated),     *)
(* serves logins, logouts and requests, stops and starts again, with the   *)
(* same or another CSRF_SECRET in its environment.  What the browsers      *)
(* hold (sessions) outlives the process; the rate-limit Map does not.      *)
(***************************************************************************)
\* process.env of the deployments: JWT_SECRET set or not, CSRF_SECRET not
\* set, "c1" or "c2"
Environments ==
    [JWT_SECRET : {<<>>, <<106, 49>>},
     CSRF_SECRET : {<<>>, <<99, 49>>, <<99, 50>>}]

ProcessInstants ==
    {0, CsrfMaxAgeMs, CsrfMaxAgeMs + 1, SessionMs - 1, SessionMs}

LogoutPath == <<"api", "auth", "logout">>

\* POST /api/auth/logout: the response, and the two cookies it sets
logoutRoute ==
    [response |-> jsonResponse("Logged out successfully", 200),
     cookies |-> [auth_token |-> [value |-> <<>>, maxAge |-> 0],
                  csrf_token |-> [value |-> <<>>, maxAge |-> 0]]]

\* A request that carries the session token in its cookie and nothing else
SessionRequest(token) ==
    [method |-> "POST",
     pathname |-> RegisterPath,
     cookies |-> [auth_token |-> token, csrf_token |-> <<>>],
     headers |-> [authorization |-> NoAuthorization, x_csrf_token |-> <<>>]]

\* A request without any token
AnonymousRequest(pathname) ==
    [method |-> "POST",
     pathname |-> pathname,
     cookies |-> [auth_token |-> NoJwt, csrf_token |-> <<>>],
     headers |-> [authorization |-> NoAuthorization, x_csrf_token |-> <<>>]]

InitProcess ==
    /\ now = 0
    /\ rateLimitStore = <<>>
    /\ activeConfig = loginRateLimit
    /\ pending = [i \in Identifiers |-> 0]
    /\ results = <<>>
    /\ sessions = NoSessions
    /\ probe = Idle
    /\ \E env \in Environments : server = Stopped(env, 0)
    /\ browser = NoBrowser
    /\ db = NoDb

\* The process starts and evaluates lib/auth.ts
Start ==
    /\ server.state = "stopped"
    /\ server.boot < MaxBoots
    /\ \E random \in RandomHex : server' = loadAuth(server, random)
    /\ UNCHANGED <<browser, db, now, rateLimitStore, activeConfig, pending, results, sessions,
                   probe>>

\* The process exits, and the Map of the limiter with it; the operator may
\* set another CSRF_SECRET before the next start
Stop ==
    /\ probe = Idle
    /\ server.state # "stopped"
    /\ \E secret \in {env.CSRF_SECRET : env \in Environments} :
          server' = Stopped([server.env EXCEPT !.CSRF_SECRET = secret],
                            server.boot)
    /\ rateLimitStore' = <<>>
    /\ UNCHANGED <<browser, db, now, activeConfig, pending, results, sessions, probe>>

\* POST /api/auth/logout from the browser of user u, with the cookies and the
\* CSRF header of the session: it passes the middleware, the handler answers,
\* and the browser drops the cookies that come back with maxAge 0
Logout(u) ==
    /\ probe = Idle
    /\ Serving
    /\ sessions[u].active
    /\ ~sessions[u].loggedOut
    /\ LET request == [OwnRequest(u) EXCEPT !.pathname = LogoutPath]
           r == logoutRoute
       IN  /\ middleware(request) = Proceed
           /\ sessions' = [sessions EXCEPT ![u].loggedOut =
                              /\ r.cookies.auth_token.maxAge = 0
                              /\ r.cookies.csrf_token.maxAge = 0]
           /\ probe' = [op |-> "logout", user |-> u, response |-> r.response,
                        store |-> rateLimitStore, process |-> server]
    /\ UNCHANGED <<browser, db, now, rateLimitStore, activeConfig, pending, results, server>>

\* The clock advances
TickProcess ==
    /\ probe = Idle
    /\ \E t \in ProcessInstants : t > now /\ now' = t
    /\ UNCHANGED <<browser, db, rateLimitStore, activeConfig, pending, results, sessions,
                   probe, server>>

NextProcess ==
    \/ Start
    \/ Stop
    \/ \E u \in UserIds : Login(u)
    \/ \E u \in UserIds : Logout(u)
    \/ TickProcess
    \/ \E token \in IssuedCsrf, userId \in UserIds : VerifyCsrf(token, userId)
    \/ \E token \in IssuedJwt : VerifyJwt(token)
    \/ \E token \in IssuedJwt : Resolve(SessionRequest(token))
    \/ \E pathname \in {RegisterPath, LoginPath} : Receive(AnonymousRequest(pathname))
    \/ \E u \in ActiveUsers : Receive(OwnRequest(u))
    \/ Route
    \/ Clear

SpecProcess == InitProcess /\ [][NextProcess]_vars

\* C22: whether a CSRF token is valid depends on the token, the user id, the
\* clock and the secret of the process only: the token a login issued is
\* rejected by every process whose secret differs from the one it was issued
\* under, and accepted for its user, within 24 hours of its issue, by every
\* process that is configured with the secret the issuing process was
\* configured with.
C22_CsrfValidityFollowsSecret ==
    probe.op = "verifyCsrfToken" =>
        \A u \in ActiveUsers :
            (probe.token = sessions[u].csrfToken /\ probe.userId = u) =>
                /\ sessions[u].csrfSecret # CSRF_SECRET
                      => probe.outcome = Returned(FALSE)
                /\ (/\ sessions[u].configured # <<>>
                    /\ sessions[u].configured = server.env.CSRF_SECRET
                    /\ now - sessions[u].at <= CsrfMaxAgeMs)
                      => probe.outcome = Returned(TRUE)

\* C22 witness: a process started after the one that issued the token, with
\* the same configured secret, has accepted the token.
C22_Witness ==
    /\ probe.op = "verifyCsrfToken"
    /\ \E u \in ActiveUsers :
          /\ probe.token = sessions[u].csrfToken
          /\ probe.userId = u
          /\ sessions[u].boot < server.boot
          /\ sessions[u].configured # <<>>
          /\ sessions[u].configured = server.env.CSRF_SECRET
    /\ probe.outcome = Returned(TRUE)

\* A process started after the one that issued the token, with another
\* secret, has rejected the token within 24 hours of its issue
OtherSecretRejected ==
    /\ probe.op = "verifyCsrfToken"
    /\ \E u \in ActiveUsers :
          /\ probe.token = sessions[u].csrfToken
          /\ probe.userId = u
          /\ sessions[u].boot < server.boot
          /\ sessions[u].csrfSecret # CSRF_SECRET
          /\ now = sessions[u].at
    /\ probe.outcome = Returned(FALSE)

\* C23: the logout answers with both cookies cleared and changes neither the
\* rate-limit store nor the process, and a session token issued before the
\* logout resolves to its identity on every request after the logout that a
\* process with the same session secret receives before the expiry of the
\* token, 7 days after its issue.
C23_LogoutRevokesNothing ==
    /\ probe.op = "logout" =>
          /\ probe.store = rateLimitStore
          /\ probe.process = server
          /\ sessions[probe.user].loggedOut
    /\ probe.op = "getUserFromRequest" =>
          \A u \in ActiveUsers :
              (/\ probe.request.cookies.auth_token = sessions[u].authToken
               /\ sessions[u].loggedOut
               /\ now < ExpiryMs(u))
                  => /\ probe.user # Null
                     /\ probe.user.id = u

\* C23 witness: a request with the session token of a user who has logged out
\* was resolved to that user in the last millisecond before the expiry.
C23_Witness ==
    /\ probe.op = "getUserFromRequest"
    /\ \E u \in ActiveUsers :
          /\ probe.request.cookies.auth_token = sessions[u].authToken
          /\ sessions[u].loggedOut
          /\ now = ExpiryMs(u) - 1
          /\ probe.user # Null
          /\ probe.user.id = u

\* C24: in a process without a session secret lib/auth.ts fails when it is
\* loaded: no session token is issued or verified, no function of the module
\* runs, and a request is answered by the middleware or not by the
\* application at all.
C24_NoSecretNoService ==
    server.env.JWT_SECRET = <<>> =>
        /\ ~Serving
        /\ sessions = NoSessions
        /\ probe.op \notin {"verifyToken", "verifyCsrfToken", "getUserFromRequest",
                            "validateCsrf", "logout"}
        /\ probe.op = "request" =>
              (probe.response = probe.gate /\ ~probe.business)

\* C24 witness: a process without a session secret has failed to load
\* lib/auth.ts, and a request has arrived at it.
C24_Witness ==
    /\ server.env.JWT_SECRET = <<>>
    /\ server.state = "failed"
    /\ probe.op = "request"

(***************************************************************************)
(* Browser runs: one browser with a cookie jar signs in as alice, moves    *)
(* between the login page and the dashboard through the middleware, runs   *)
(* the effect of the dashboard layout, and clicks logout, while the        *)
(* cookies age and the session cookie may be replaced in the jar.          *)
(***************************************************************************)
LoginPage == <<"login">>
DashboardPage == <<"dashboard">>
MePath == <<"api", "auth", "me">>

\* No navigation is under way
NoPage == <<>>

\* new URL(to, request.url).pathname for the two redirect targets
UrlPath(to) == IF to = "/dashboard" THEN DashboardPage ELSE LoginPage

\* lib/auth.ts: the attributes of the two cookies that matter to the browser
AUTH_COOKIE_OPTIONS ==
    [name |-> "auth_token", httpOnly |-> TRUE, maxAge |-> 7 * 24 * 60 * 60]

CSRF_COOKIE_OPTIONS ==
    [name |-> "csrf_token", httpOnly |-> FALSE, maxAge |-> 24 * 60 * 60]

\* The instants of the browser runs: two instants for the login, one past
\* the age of every csrf_token cookie, one at which the token of a login at
\* MaxLoginMs has expired and its cookie has not, one past every cookie
BrowserInstants ==
    {0, MaxLoginMs, CsrfMaxAgeMs + MaxLoginMs + 1, SessionMs + 1,
     SessionMs + MaxLoginMs + 1}

\* The jar entry for Set-Cookie with Max-Age at time t; Max-Age 0 removes it
SetCookie(value, empty, options, maxAge, t) ==
    IF maxAge = 0
    THEN [value |-> empty, expires |-> 0, httpOnly |-> options.httpOnly]
    ELSE [value |-> value, expires |-> t + maxAge * MsPerSecond,
          httpOnly |-> options.httpOnly]

EmptyJar ==
    [auth_token |-> SetCookie(NoJwt, NoJwt, AUTH_COOKIE_OPTIONS, 0, 0),
     csrf_token |-> SetCookie(<<>>, <<>>, CSRF_COOKIE_OPTIONS, 0, 0)]

\* The browser still holds the cookie at time t
Live(cookie, t) == t < cookie.expires

\* The Cookie header of a request at time t
CookieHeader(jar, t) ==
    [auth_token |-> IF Live(jar.auth_token, t) THEN jar.auth_token.value
                    ELSE NoJwt,
     csrf_token |-> IF Live(jar.csrf_token, t) THEN jar.csrf_token.value
                    ELSE <<>>]

\* api-client: getCsrfToken() reads document.cookie, which holds the cookies
\* that are not httpOnly; <<>> stands for null
getCsrfToken(jar, t) ==
    IF Live(jar.csrf_token, t) /\ ~jar.csrf_token.httpOnly
    THEN jar.csrf_token.value ELSE <<>>

\* api-client: isAuthenticated(): document.cookie.includes("auth_token=")
isAuthenticated(jar, t) ==
    Live(jar.auth_token, t) /\ ~jar.auth_token.httpOnly

\* A secureFetch that takes no token from document.cookie
secureFetchNoCsrf(jar, method, pathname, skipCsrf, t) ==
    [method |-> method,
     pathname |-> pathname,
     cookies |-> CookieHeader(jar, t),
     headers |-> [authorization |-> NoAuthorization, x_csrf_token |-> <<>>]]

\* api-client: the request secureFetch(url, {method, skipCsrf}) sends
secureFetch(jar, method, pathname, skipCsrf, t) ==
    [method |-> method,
     pathname |-> pathname,
     cookies |-> CookieHeader(jar, t),
     headers |-> [authorization |-> NoAuthorization,
                  x_csrf_token |->
                      IF ~skipCsrf /\ IsMutation(toUpperCase(method))
                      THEN getCsrfToken(jar, t) ELSE <<>>]]

\* GET /api/auth/me up to the users query
meRoute(request, t) ==
    IF getUserFromRequest(request, t) = Null THEN unauthorizedResponse
    ELSE jsonResponse("", 200)

\* The answer to a request: of the middleware when it stops the request, of
\* the handler otherwise
Answer(request, handled) ==
    LET m == middleware(request) IN IF m = Proceed THEN handled ELSE m

\* A browser that has opened the login page
OpenedBrowser ==
    [location |-> LoginPage, target |-> NoPage, effect |-> FALSE,
     soft |-> FALSE, jar |-> EmptyJar]

InitBrowser ==
    /\ now = 0
    /\ rateLimitStore = <<>>
    /\ activeConfig = loginRateLimit
    /\ pending = [i \in Identifiers |-> 0]
    /\ results = <<>>
    /\ sessions = NoSessions
    /\ probe = Idle
    /\ server = ConfiguredServer
    /\ browser = OpenedBrowser
    /\ db = NoDb

\* LoginPage.handleSubmit: the form is posted with skipCsrf; on res.ok the
\* browser has stored the two cookies and router.push("/dashboard") follows
SubmitLogin(body) ==
    /\ browser.location = LoginPage
    /\ browser.target = NoPage
    /\ now <= MaxLoginMs
    /\ LET request == secureFetch(browser.jar, "POST", LoginPath, TRUE, now)
           r == loginPost(rateLimitStore, LoginClient, body, now)
           ok == middleware(request) = Proceed /\ r.response.status = 200
           user == CHOOSE u \in Users : u.email = body.email
       IN  /\ rateLimitStore' =
                 IF middleware(request) = Proceed THEN r.store
                 ELSE rateLimitStore
           /\ browser' =
                 IF ok
                 THEN [browser EXCEPT
                          !.jar = [auth_token |->
                                      SetCookie(r.cookies.auth_token, NoJwt,
                                                AUTH_COOKIE_OPTIONS,
                                                AUTH_COOKIE_OPTIONS.maxAge, now),
                                   csrf_token |->
                                      SetCookie(r.cookies.csrf_token, <<>>,
                                                CSRF_COOKIE_OPTIONS,
                                                CSRF_COOKIE_OPTIONS.maxAge, now)],
                          !.target = DashboardPage,
                          !.soft = TRUE]
                 ELSE browser
           /\ sessions' =
                 IF ok
                 THEN [sessions EXCEPT ![user.id] =
                          [active |-> TRUE,
                           authToken |-> r.cookies.auth_token,
                           csrfToken |-> r.cookies.csrf_token,
                           at |-> now,
                           csrfSecret |-> CSRF_SECRET,
                           configured |-> server.env.CSRF_SECRET,
                           boot |-> server.boot,
                           loggedOut |-> FALSE]]
                 ELSE sessions
           /\ probe' = [op |-> "login", at |-> now, request |-> request,
                        response |-> Answer(request, r.response)]
    /\ UNCHANGED <<now, activeConfig, pending, results, server, db>>

\* The user opens a page from the address bar
Open(page) ==
    /\ browser.target = NoPage
    /\ browser' = [browser EXCEPT !.target = page, !.soft = FALSE]
    /\ UNCHANGED <<now, rateLimitStore, activeConfig, pending, results,
                   sessions, probe, server, db>>

\* The browser requests the page it is going to: it follows a redirect of
\* the middleware, and shows the page otherwise. The layout of the dashboard
\* mounts, and its effect runs, on every load of the document; after a
\* router.push that ends on the page already shown, the router may keep the
\* mounted layout.
Navigate ==
    /\ browser.target # NoPage
    /\ LET m == middleware(secureFetch(browser.jar, "GET", browser.target,
                                       FALSE, now))
       IN  IF m.kind = "redirect"
           THEN browser' = [browser EXCEPT !.target = UrlPath(m.message)]
           ELSE \E mounts \in BOOLEAN :
                   /\ mounts \/ (browser.soft
                                   /\ browser.target = browser.location)
                   /\ browser' = [browser EXCEPT
                          !.location = browser.target,
                          !.target = NoPage,
                          !.soft = FALSE,
                          !.effect = mounts /\ browser.target = DashboardPage]
    /\ UNCHANGED <<now, rateLimitStore, activeConfig, pending, results,
                   sessions, probe, server, db>>

\* DashboardLayout: the effect calls fetchUserData once per mount.
\* fetchUserData pushes /login when isAuthenticated() is false; otherwise
\* api("/api/auth/me") is awaited: on 401 api sets window.location.href to
\* /login, and without data fetchUserData pushes /login.
Effect ==
    /\ browser.effect
    /\ browser.target = NoPage
    /\ LET request == secureFetch(browser.jar, "GET", MePath, FALSE, now)
           response == Answer(request, meRoute(request, now))
       IN  browser' =
              IF ~isAuthenticated(browser.jar, now)
              THEN [browser EXCEPT !.effect = FALSE, !.target = LoginPage,
                                   !.soft = TRUE]
              ELSE IF response.status = 401
              THEN [browser EXCEPT !.effect = FALSE, !.target = LoginPage,
                                   !.soft = FALSE]
              ELSE IF response.status # 200
              THEN [browser EXCEPT !.effect = FALSE, !.target = LoginPage,
                                   !.soft = TRUE]
              ELSE [browser EXCEPT !.effect = FALSE]
    /\ UNCHANGED <<now, rateLimitStore, activeConfig, pending, results,
                   sessions, probe, server, db>>

\* handleLogout: logout() posts to /api/auth/logout with secureFetch, ignores
\* the outcome, and sets window.location.href to /login. When the request
\* reaches the handler the browser drops the two cookies.
ClickLogout ==
    /\ browser.location = DashboardPage
    /\ browser.target = NoPage
    /\ LET request == secureFetch(browser.jar, "POST", LogoutPath, FALSE, now)
           handled == middleware(request) = Proceed
           r == logoutRoute
       IN  /\ browser' = [browser EXCEPT
                 !.jar = IF handled
                         THEN [auth_token |->
                                  SetCookie(r.cookies.auth_token.value, NoJwt,
                                            AUTH_COOKIE_OPTIONS,
                                            r.cookies.auth_token.maxAge, now),
                               csrf_token |->
                                  SetCookie(r.cookies.csrf_token.value, <<>>,
                                            CSRF_COOKIE_OPTIONS,
                                            r.cookies.csrf_token.maxAge, now)]
                         ELSE @,
                 !.target = LoginPage,
                 !.soft = FALSE,
                 !.effect = FALSE]
           /\ sessions' = [u \in UserIds |->
                 IF handled /\ sessions[u].active
                 THEN [sessions[u] EXCEPT !.loggedOut = TRUE]
                 ELSE sessions[u]]
           /\ probe' = [op |-> "logout", at |-> now, request |-> request,
                        response |-> Answer(request, r.response)]
    /\ UNCHANGED <<now, rateLimitStore, activeConfig, pending, results, server,
                   db>>

\* The session cookie of the jar is replaced by the same token signed under
\* another key: the cookie of a session whose secret has been rotated, or a
\* cookie that was tampered with
Replace ==
    /\ Live(browser.jar.auth_token, now)
    /\ verifyToken(browser.jar.auth_token.value, now) # Null
    /\ browser' = [browser EXCEPT
          !.jar.auth_token.value = ForgeSignature(@)]
    /\ UNCHANGED <<now, rateLimitStore, activeConfig, pending, results,
                   sessions, probe, server, db>>

\* The clock advances
TickBrowser ==
    /\ \E t \in BrowserInstants : t > now /\ now' = t
    /\ UNCHANGED <<rateLimitStore, activeConfig, pending, results, sessions,
                   probe, server, browser, db>>

NextBrowser ==
    \/ \E body \in LoginBodies : SubmitLogin(body)
    \/ \E page \in {LoginPage, DashboardPage} : Open(page)
    \/ Navigate
    \/ Effect
    \/ ClickLogout
    \/ Replace
    \/ TickBrowser

SpecBrowser == InitBrowser /\ [][NextBrowser]_vars

\* The browser and the runtime take their steps: a navigation under way is
\* carried out, and a mounted layout runs its effect. Nothing obliges the
\* user to click or to type, and nothing in the code waits for a cookie to
\* age.
SpecBrowserLive ==
    SpecBrowser /\ WF_vars(Navigate) /\ WF_vars(Effect)

\* The session token in the Cookie header of the request verifies
PresentsValidSession(request, t) ==
    /\ HasJwt(request.cookies.auth_token)
    /\ verifyToken(request.cookies.auth_token, t) # Null

\* C33: a POST to /api/auth/logout from a browser that presents a valid
\* auth_token cookie is never stopped by the middleware: it is answered by
\* the logout handler, whose response clears the cookies, also when the
\* csrf_token cookie has expired and no X-CSRF-Token header is sent.
C33_LogoutAlwaysReachesHandler ==
    (probe.op = "logout" /\ PresentsValidSession(probe.request, probe.at))
        => probe.response = logoutRoute.response

\* A logout request with a valid auth_token cookie and an X-CSRF-Token
\* header, whatever the header holds, is answered by the logout handler.
LogoutWithCsrfHeaderReachesHandler ==
    (/\ probe.op = "logout"
     /\ PresentsValidSession(probe.request, probe.at)
     /\ probe.request.headers.x_csrf_token # <<>>)
        => probe.response = logoutRoute.response

\* A logout request with an auth_token cookie and no X-CSRF-Token header is
\* answered 403 by the middleware, and the cookies stay in the jar.
LogoutWithoutCsrfHeaderAnswered403 ==
    (/\ probe.op = "logout"
     /\ HasJwt(probe.request.cookies.auth_token)
     /\ probe.request.headers.x_csrf_token = <<>>)
        => probe.response = jsonResponse("CSRF token required", 403)

\* The browser holds a csrf_token it can send, and the token verifies for u
HoldsUsableCsrf(u) ==
    /\ getCsrfToken(browser.jar, now) # <<>>
    /\ verifyCsrfToken(getCsrfToken(browser.jar, now), u, now)

\* The csrf_token values that responses set for a client that does not
\* present the password of u: of the login handler for every other body, and
\* of the logout handler. No other handler sets the cookie.
ReissuedWithoutCredentials(u, t) ==
    {loginPost(<<>>, LoginClient, body, t).cookies.csrf_token :
        body \in {b \in LoginBodies : b.password # PasswordOf(UserById(u))}}
      \cup {logoutRoute.cookies.csrf_token.value}

\* The browser holds the session cookie of the last login of u, the user has
\* not logged out, and the session token verifies
LoggedIn(u) ==
    /\ sessions[u].active
    /\ ~sessions[u].loggedOut
    /\ CookieHeader(browser.jar, now).auth_token = sessions[u].authToken
    /\ verifyToken(sessions[u].authToken, now) # Null

\* C34: at every time at which the session token of a logged-in browser
\* verifies, the browser holds a CSRF token that verifies for the user, or a
\* response to a request without the user's credentials hands it one.
C34_UsableCsrfWhileSessionValid ==
    \A u \in UserIds :
        LoggedIn(u) =>
            \/ HoldsUsableCsrf(u)
            \/ \E token \in ReissuedWithoutCredentials(u, now) :
                  token # <<>> /\ verifyCsrfToken(token, u, now)

\* Within 24 hours of the login the logged-in browser holds a CSRF token
\* that verifies for the user.
UsableCsrfWithin24Hours ==
    \A u \in UserIds :
        (LoggedIn(u) /\ now < sessions[u].at + CsrfMaxAgeMs)
            => HoldsUsableCsrf(u)

\* More than 24 hours after the login the logged-in browser holds no CSRF
\* token, and no response without the credentials hands it one.
NoCsrfAfter24Hours ==
    \A u \in UserIds :
        (LoggedIn(u) /\ now > sessions[u].at + CsrfMaxAgeMs)
            => /\ getCsrfToken(browser.jar, now) = <<>>
               /\ \A token \in ReissuedWithoutCredentials(u, now) : token = <<>>

\* The browser holds a session cookie whose token fails verification
FailingCookie ==
    /\ Live(browser.jar.auth_token, now)
    /\ verifyToken(browser.jar.auth_token.value, now) = Null

\* The login page is shown and no navigation is under way
SettledOnLogin ==
    browser.location = LoginPage /\ browser.target = NoPage

\* C35: a browser that holds an auth_token cookie whose token fails
\* verification eventually shows the login page, with no navigation under
\* way.
C35_SettlesOnLogin == FailingCookie ~> SettledOnLogin

\* While the browser holds a session cookie, whatever its token, every
\* request for the login page is redirected to the dashboard: the login page
\* is not shown.
LoginPageUnreachableWithCookie ==
    Live(browser.jar.auth_token, now) => ~SettledOnLogin

(***************************************************************************)
(* Registration runs: users post to /api/registrations/register for one    *)
(* solo tournament at the same time. Each handler runs its queries in one  *)
(* transaction on a connection of its own; PostgreSQL interleaves the      *)
(* statements of the transactions, and an UPDATE of the tournament row     *)
(* waits while another transaction holds the row's lock.                   *)
(***************************************************************************)
Registrants == 1..MaxRegistrants

\* The isolation level of the transactions of withTransaction (lib/db.ts) is
\* not in the source: PostgreSQL's default, or a snapshot level
Isolations == {"read committed", "repeatable read"}

\* No transaction has begun for the user
NoTransaction ==
    [pc |-> "idle", current_teams |-> 0, snapshot |-> 0, written |-> 0,
     response |-> Idle]

InitRegister ==
    /\ now = 0
    /\ rateLimitStore = <<>>
    /\ activeConfig = loginRateLimit
    /\ pending = [i \in Identifiers |-> 0]
    /\ results = <<>>
    /\ sessions = NoSessions
    /\ probe = Idle
    /\ server = ConfiguredServer
    /\ browser = NoBrowser
    /\ \E max \in 1..MaxTeams, current \in 0..MaxTeams, level \in Isolations :
          /\ current <= max
          /\ db = [tournament |-> [status |-> "registration_open",
                                   current_teams |-> current,
                                   max_teams |-> max,
                                   version |-> 0],
                   registrations |-> current,
                   isolation |-> level,
                   lock |-> 0,
                   tx |-> [c \in Registrants |-> NoTransaction]]

\* The transaction of user c ends with ROLLBACK and the handler answers with
\* the message of the error
RolledBack(c, message) ==
    [db EXCEPT !.tx[c].pc = "done",
               !.tx[c].response = errorResponse(message, 400)]

\* BEGIN, SELECT * FROM tournaments WHERE id = $1, and the checks of the row:
\* the committed row is read, without a lock
CheckCapacity(c) ==
    /\ db.tx[c].pc = "idle"
    /\ LET tournament == db.tournament
       IN  db' = IF tournament.current_teams >= tournament.max_teams
                 THEN RolledBack(c, "Tournament is full")
                 ELSE [db EXCEPT !.tx[c].pc = "checked",
                                 !.tx[c].current_teams = tournament.current_teams,
                                 !.tx[c].snapshot = tournament.version]
    /\ UNCHANGED <<now, rateLimitStore, activeConfig, pending, results,
                   sessions, probe, server, browser>>

\* The solo branch up to the INSERT: the user has no registration yet, the
\* next slot number is read and the registration row is inserted
InsertRegistration(c) ==
    /\ db.tx[c].pc = "checked"
    /\ db' = [db EXCEPT !.tx[c].pc = "inserted"]
    /\ UNCHANGED <<now, rateLimitStore, activeConfig, pending, results,
                   sessions, probe, server, browser>>

\* UPDATE tournaments SET current_teams = current_teams + 1: the statement
\* waits for the row's lock. Under read committed it then adds one to the
\* row as last committed; under a snapshot level it fails when the row was
\* changed after the transaction's snapshot, and the transaction rolls back.
IncrementTeams(c) ==
    /\ db.tx[c].pc = "inserted"
    /\ db.lock \in {0, c}
    /\ db' = IF /\ db.isolation = "repeatable read"
                /\ db.tournament.version # db.tx[c].snapshot
             THEN [RolledBack(c, "could not serialize access due to concurrent update")
                      EXCEPT !.lock = 0]
             ELSE [db EXCEPT !.tx[c].pc = "updated",
                             !.tx[c].written = db.tournament.current_teams + 1,
                             !.lock = c]
    /\ UNCHANGED <<now, rateLimitStore, activeConfig, pending, results,
                   sessions, probe, server, browser>>

\* COMMIT, and the handler answers 201
Commit(c) ==
    /\ db.tx[c].pc = "updated"
    /\ db' = [db EXCEPT !.tournament.current_teams = db.tx[c].written,
                        !.tournament.version = @ + 1,
                        !.registrations = @ + 1,
                        !.lock = 0,
                        !.tx[c].pc = "done",
                        !.tx[c].response = jsonResponse(
                            "Successfully registered for the tournament", 201)]
    /\ UNCHANGED <<now, rateLimitStore, activeConfig, pending, results,
                   sessions, probe, server, browser>>

NextRegister ==
    \E c \in Registrants :
        \/ CheckCapacity(c)
        \/ InsertRegistration(c)
        \/ IncrementTeams(c)
        \/ Commit(c)

SpecRegister == InitRegister /\ [][NextRegister]_vars

\* C39: under every interleaving of the register transactions for one
\* tournament, current_teams never exceeds max_teams.
C39_NeverOverbooked ==
    db.tournament.current_teams <= db.tournament.max_teams

\* Under a snapshot isolation level (repeatable read or serializable) the
\* tournament is never overbooked: the UPDATE of the transaction that comes
\* second fails.
NeverOverbookedUnderSnapshot ==
    db.isolation = "repeatable read"
        => db.tournament.current_teams <= db.tournament.max_teams

\* current_teams counts the committed registrations.
CurrentTeamsCountsRegistrations ==
    db.tournament.current_teams = db.registrations

====
